---- MODULE Spec2Model ----
(***************************************************************************)
(* claude-coord: file-based advisory locks (internal/lock) and the agent   *)
(* heartbeat registry (internal/agent), modelled at the granularity of the *)
(* system calls each operation makes.  Every CLI invocation is its own OS  *)
(* process; the shared state is the locks/ and agents/ directories.        *)
(***************************************************************************)
EXTENDS Integers, Sequences, FiniteSets, TLC

VARIABLES now,      \* wall clock, in seconds
          locks,    \* locks/ directory: file name -> file
          agents,   \* agents/ directory: agent id -> file
          pc,       \* position of each process inside its operation
          call,     \* operation and arguments of each process
          loc,      \* local variables of each process
          ret,      \* value returned by the finished operation
          ops,      \* operations started so far
          crashes,  \* processes killed so far
          config,   \* config.yaml: the protected patterns, in order
          cache     \* check-cache.json

vars == <<now, locks, agents, pc, call, loc, ret, ops, crashes, config, cache>>

----------------------------------------------------------------------------
(* Bounds of the model *)

MaxTime == 3
\* operations started, and processes killed, in one behaviour
MaxOps == 3
MaxCrashes == 1

(* Settings of config.yaml (scaled-down seconds) *)
DefaultTTL == 2
StaleThreshold == 1

Procs == {"A", "B", "C"}
AgentIDs == {"A", "B", "C"}

\* the agent ids a process passes as --agent / CLAUDE_SESSION_ID
AgentsOf(p) == {p}

\* resource patterns are strings, modelled as sequences of characters
ResDB == <<"d", "/", "*">>
Resources == {ResDB}

\* further resources, locked by hand or through the protected patterns
ResDA == <<"d", "/", "a">>
ResGA == <<"*", "*", "/", "a">>
AllResources == {ResDB, ResDA, ResGA}

\* protected: of config.yaml, the more specific pattern first
Protected == <<ResDA, ResDB>>

\* --ttl values used on the command line; 0 selects the configured default
TTLArgs == {0, 1}

----------------------------------------------------------------------------
(* Files *)

NoFile == [kind |-> "none"]
\* a file created by O_CREAT|O_EXCL (or truncated) and not written yet
EmptyFile(p, t) == [kind |-> "empty", ino |-> p, mtime |-> t]

Lock(resource, agentID, acquiredAt, ttlSeconds) ==
    [kind |-> "rec", resource |-> resource, agent_id |-> agentID,
     acquired_at |-> acquiredAt, ttl_seconds |-> ttlSeconds]

Agent(id, startedAt, lastHeartbeat, t) ==
    [kind |-> "rec", agent_id |-> id, name |-> "", started_at |-> startedAt,
     last_heartbeat |-> lastHeartbeat, current_task |-> "",
     locks_held |-> <<>>, mtime |-> t]

\* strings.ReplaceAll of the four characters, one character at a time
SafeChar(c) == IF c = "/" \/ c = "\\" THEN "-"
               ELSE IF c = "*" \/ c = "?" THEN "_"
               ELSE c

lockPath(resource) == [i \in DOMAIN resource |-> SafeChar(resource[i])]

Keys == {lockPath(r) : r \in AllResources}

\* os.ReadDir returns the entries sorted by file name:
\* __-a.lock < d-_.lock < d-a.lock
KeyOrder == <<lockPath(ResGA), lockPath(ResDB), lockPath(ResDA)>>

\* json.Unmarshal of the file's bytes succeeds only on a written record
Parseable(f) == f.kind = "rec"

\* variant: every directory entry is returned, readable or not
RECURSIVE ListFromAll(_, _)
ListFromAll(dir, i) ==
    IF i > Len(KeyOrder) THEN <<>>
    ELSE IF dir[KeyOrder[i]].kind # "none"
         THEN <<dir[KeyOrder[i]]>> \o ListFromAll(dir, i + 1)
         ELSE ListFromAll(dir, i + 1)

RECURSIVE ListFrom(_, _)
ListFrom(dir, i) ==
    IF i > Len(KeyOrder) THEN <<>>
    ELSE IF Parseable(dir[KeyOrder[i]])
         THEN <<dir[KeyOrder[i]]>> \o ListFrom(dir, i + 1)
         ELSE ListFrom(dir, i + 1)

List(dir) == ListFrom(dir, 1)

----------------------------------------------------------------------------
(* Staleness *)

\* variant: a heartbeat exactly stale_threshold old already counts as too old
IsStaleAtThreshold(lock, t, ags) ==
    IF t - lock.acquired_at > lock.ttl_seconds THEN TRUE
    ELSE IF ags[lock.agent_id].kind = "none"
         THEN t - lock.acquired_at > StaleThreshold
         ELSE t - ags[lock.agent_id].mtime >= StaleThreshold

\* variant: the TTL is not looked at, the heartbeat rule alone decides
IsStaleByHeartbeatOnly(lock, t, ags) ==
    IF ags[lock.agent_id].kind = "none"
    THEN t - lock.acquired_at > StaleThreshold
    ELSE t - ags[lock.agent_id].mtime > StaleThreshold

\* variant: the heartbeat file is not consulted, the age of the lock decides
IsStaleByAgeOnly(lock, t, ags) ==
    IF t - lock.acquired_at > lock.ttl_seconds THEN TRUE
    ELSE t - lock.acquired_at > StaleThreshold

IsStale(lock, t, ags) ==
    IF t - lock.acquired_at > lock.ttl_seconds THEN TRUE
    ELSE IF ags[lock.agent_id].kind = "none"
         THEN t - lock.acquired_at > StaleThreshold
         ELSE t - ags[lock.agent_id].mtime > StaleThreshold

----------------------------------------------------------------------------
(* Process bookkeeping *)

NoCall == [op |-> "none", resource |-> <<>>, agentID |-> "-", ttl |-> 0]
\* cache.Load without a readable file: no hash, no entries
EmptyCache == [hashed |-> FALSE, hash |-> <<>>, np |-> {}]

NoLoc == [lock |-> NoFile, existing |-> NoFile, stale |-> FALSE,
          todo |-> <<>>, cleaned |-> <<>>, agent |-> NoFile,
          matched |-> <<>>, errs |-> <<>>, start |-> 0, wake |-> 0,
          sig |-> "none", checkCache |-> EmptyCache,
          cacheModified |-> FALSE, blocked |-> <<>>, acquired |-> <<>>]
NoRet == [err |-> "none", owner |-> "-", lock |-> NoFile]

Ret(e) == [err |-> e, owner |-> "-", lock |-> NoFile]

\* "resource '%s' is locked by agent '%s' (%s): %s"
Conflict(owner) == [Ret("conflict") EXCEPT !.owner = owner]

Init ==
    /\ now = 0
    /\ locks = [k \in Keys |-> NoFile]
    /\ agents = [a \in AgentIDs |-> NoFile]
    /\ pc = [p \in Procs |-> "idle"]
    /\ call = [p \in Procs |-> NoCall]
    /\ loc = [p \in Procs |-> NoLoc]
    /\ ret = [p \in Procs |-> NoRet]
    /\ ops = 0
    /\ crashes = 0
    /\ config = Protected
    /\ cache = NoFile

\* where a call that ends goes: the command exits, or runCheck goes on with
\* what lockMgr.Check or lockMgr.CheckOrAcquire has returned
Exit(p) == IF call[p].op = "RunCheck" THEN "rc_result" ELSE "done"

\* the operation returns r; what the process last held in its variables stays
\* readable until its next invocation
Finish(p, r) ==
    /\ pc' = [pc EXCEPT ![p] = Exit(p)]
    /\ ret' = [ret EXCEPT ![p] = r]
    /\ UNCHANGED loc

\* m.Acquire, m.Release or m.Heartbeat returns r to its caller: the command
\* line, the loop of ReleaseAll, CheckOrAcquire, which goes on only after a
\* success, or the loop of the heartbeat daemon
Return(p, r) ==
    /\ pc' = [pc EXCEPT ![p] =
                IF call[p].op = "ReleaseAll" THEN "ra_next"
                ELSE IF call[p].op = "Daemon" THEN "hbd_select"
                ELSE IF /\ call[p].op \in {"CheckOrAcquire", "RunCheck"}
                        /\ r.err = "ok"
                     THEN "coa_read"
                ELSE Exit(p)]
    /\ ret' = [ret EXCEPT ![p] = r]
    /\ UNCHANGED loc

\* the operation goes on at label
Goto(p, label) ==
    /\ pc' = [pc EXCEPT ![p] = label]
    /\ UNCHANGED ret

\* a new invocation in the place of one that has exited (or never ran)
Begin(p, c, label) ==
    /\ pc[p] \in {"idle", "done"}
    /\ ops < MaxOps
    /\ ops' = ops + 1
    /\ UNCHANGED <<crashes, config, cache>>
    /\ call' = [call EXCEPT ![p] = c]
    /\ pc' = [pc EXCEPT ![p] = label]
    /\ ret' = [ret EXCEPT ![p] = NoRet]

Tick ==
    /\ now < MaxTime
    /\ now' = now + 1
    /\ UNCHANGED <<locks, agents, pc, call, loc, ret, ops, crashes,
                   config, cache>>

----------------------------------------------------------------------------
(* lock.Manager.Acquire *)

\* entry of Acquire: ttl resolved, the Lock value built with time.Now()
Acquire(p, resource, agentID, ttl) ==
    LET t == IF ttl = 0 THEN DefaultTTL ELSE ttl IN
    /\ Begin(p, [op |-> "Acquire", resource |-> resource, agentID |-> agentID,
                 ttl |-> t], "acq_open")
    /\ loc' = [loc EXCEPT ![p] =
                 [NoLoc EXCEPT !.lock = Lock(resource, agentID, now, t)]]
    /\ UNCHANGED <<now, locks, agents>>

\* syscall.Open(lockPath, O_CREAT|O_EXCL|O_WRONLY)
AcqOpen(p) ==
    /\ pc[p] = "acq_open"
    /\ LET k == lockPath(call[p].resource) IN
       IF locks[k].kind = "none"
       THEN /\ locks' = [locks EXCEPT ![k] = EmptyFile(p, now)]
            /\ Goto(p, "acq_write")
       ELSE /\ Goto(p, "acq_read")
            /\ UNCHANGED locks
    /\ UNCHANGED <<now, agents, call, loc, ops, crashes, config, cache>>

\* syscall.Write(fd, data): the bytes go to the file the descriptor names,
\* which is no longer in the directory if someone removed the path meanwhile
AcqWrite(p) ==
    /\ pc[p] = "acq_write"
    /\ LET k == lockPath(call[p].resource) IN
       IF locks[k].kind = "empty" /\ locks[k].ino = p
       THEN locks' = [locks EXCEPT ![k] = loc[p].lock]
       ELSE UNCHANGED locks
    /\ Return(p, Ret("ok"))
    /\ UNCHANGED <<now, agents, call, ops, crashes, config, cache>>

\* m.Read(resource) after the exclusive create failed
AcqRead(p) ==
    /\ pc[p] = "acq_read"
    /\ LET f == locks[lockPath(call[p].resource)] IN
       IF Parseable(f)
       THEN /\ loc' = [loc EXCEPT ![p].existing = f]
            /\ Goto(p, "acq_stale")
       ELSE Finish(p, Ret("ioerr"))
    /\ UNCHANGED <<now, locks, agents, call, ops, crashes, config, cache>>

\* m.IsStale(existing)
AcqStale(p) ==
    /\ pc[p] = "acq_stale"
    /\ LET stale == IsStale(loc[p].existing, now, agents) IN
       /\ loc' = [loc EXCEPT ![p].stale = stale]
       /\ pc' = [pc EXCEPT ![p] = IF stale THEN "acq_remove" ELSE Exit(p)]
       /\ ret' = [ret EXCEPT ![p] =
                    IF stale THEN @ ELSE Conflict(loc[p].existing.agent_id)]
    /\ UNCHANGED <<now, locks, agents, call, ops, crashes, config, cache>>

\* os.Remove(lockPath); on success Acquire calls itself
AcqRemove(p) ==
    /\ pc[p] = "acq_remove"
    /\ LET k == lockPath(call[p].resource) IN
       IF locks[k].kind # "none"
       THEN /\ locks' = [locks EXCEPT ![k] = NoFile]
            /\ Goto(p, "acq_again")
            /\ UNCHANGED loc
       ELSE /\ Finish(p, Conflict(loc[p].existing.agent_id))
            /\ UNCHANGED locks
    /\ UNCHANGED <<now, agents, call, ops, crashes, config, cache>>

\* variant: the retry writes the Lock value built before the reclaim
AcqAgainSameLock(p) ==
    /\ pc[p] = "acq_again"
    /\ Goto(p, "acq_open")
    /\ UNCHANGED <<now, locks, agents, call, loc, ops, crashes, config, cache>>

\* the recursive call builds a new Lock value with a new time.Now()
AcqAgain(p) ==
    /\ pc[p] = "acq_again"
    /\ loc' = [loc EXCEPT ![p].lock =
                 Lock(call[p].resource, call[p].agentID, now, call[p].ttl)]
    /\ Goto(p, "acq_open")
    /\ UNCHANGED <<now, locks, agents, call, ops, crashes, config, cache>>

----------------------------------------------------------------------------
(* lock.Manager.Release *)

Release(p, resource, agentID) ==
    /\ Begin(p, [op |-> "Release", resource |-> resource, agentID |-> agentID,
                 ttl |-> 0], "rel_read")
    /\ loc' = [loc EXCEPT ![p] = NoLoc]
    /\ UNCHANGED <<now, locks, agents>>

\* variant: the owner is not compared
RelReadAnyOwner(p) ==
    /\ pc[p] = "rel_read"
    /\ LET f == locks[lockPath(call[p].resource)] IN
       IF f.kind = "none" THEN Return(p, Ret("ok"))
       ELSE IF ~Parseable(f) THEN Return(p, Ret("ioerr"))
       ELSE /\ loc' = [loc EXCEPT ![p].existing = f]
            /\ Goto(p, "rel_remove")
    /\ UNCHANGED <<now, locks, agents, call, ops, crashes, config, cache>>

\* variant: a missing lock file is an error like any other
RelReadMustExist(p) ==
    /\ pc[p] = "rel_read"
    /\ LET f == locks[lockPath(call[p].resource)] IN
       IF ~Parseable(f) THEN Return(p, Ret("ioerr"))
       ELSE IF f.agent_id # call[p].agentID
            THEN Return(p, [Ret("ownership") EXCEPT !.owner = f.agent_id])
       ELSE /\ loc' = [loc EXCEPT ![p].existing = f]
            /\ Goto(p, "rel_remove")
    /\ UNCHANGED <<now, locks, agents, call, ops, crashes, config, cache>>

\* variant: a record under the same file name for another resource counts as
\* no lock
RelReadSameResource(p) ==
    /\ pc[p] = "rel_read"
    /\ LET f == locks[lockPath(call[p].resource)] IN
       IF f.kind = "none" THEN Return(p, Ret("ok"))
       ELSE IF ~Parseable(f) THEN Return(p, Ret("ioerr"))
       ELSE IF f.resource # call[p].resource THEN Return(p, Ret("ok"))
       ELSE IF f.agent_id # call[p].agentID
            THEN Return(p, [Ret("ownership") EXCEPT !.owner = f.agent_id])
       ELSE /\ loc' = [loc EXCEPT ![p].existing = f]
            /\ Goto(p, "rel_remove")
    /\ UNCHANGED <<now, locks, agents, call, ops, crashes, config, cache>>

\* m.Read(resource) and the comparison of the owner
RelRead(p) ==
    /\ pc[p] = "rel_read"
    /\ LET f == locks[lockPath(call[p].resource)] IN
       IF f.kind = "none" THEN Return(p, Ret("ok"))
       ELSE IF ~Parseable(f) THEN Return(p, Ret("ioerr"))
       ELSE IF f.agent_id # call[p].agentID
            THEN Return(p, [Ret("ownership") EXCEPT !.owner = f.agent_id])
       ELSE /\ loc' = [loc EXCEPT ![p].existing = f]
            /\ Goto(p, "rel_remove")
    /\ UNCHANGED <<now, locks, agents, call, ops, crashes, config, cache>>

\* variant: success is returned and the file stays
RelRemoveKeepsFile(p) ==
    /\ pc[p] = "rel_remove"
    /\ Return(p, Ret("ok"))
    /\ UNCHANGED <<now, locks, agents, call, ops, crashes, config, cache>>

\* return os.Remove(lockPath)
RelRemove(p) ==
    /\ pc[p] = "rel_remove"
    /\ LET k == lockPath(call[p].resource) IN
       IF locks[k].kind # "none"
       THEN /\ locks' = [locks EXCEPT ![k] = NoFile]
            /\ Return(p, Ret("ok"))
       ELSE /\ Return(p, Ret("ioerr"))
            /\ UNCHANGED locks
    /\ UNCHANGED <<now, agents, call, ops, crashes, config, cache>>

----------------------------------------------------------------------------
(* lock.Manager.CleanStale *)

CleanStale(p) ==
    /\ Begin(p, [op |-> "CleanStale", resource |-> <<>>, agentID |-> "-",
                 ttl |-> 0], "cs_list")
    /\ loc' = [loc EXCEPT ![p] = NoLoc]
    /\ UNCHANGED <<now, locks, agents>>

\* locks, err := m.List()
CsList(p) ==
    /\ pc[p] = "cs_list"
    /\ loc' = [loc EXCEPT ![p].todo = List(locks)]
    /\ Goto(p, "cs_check")
    /\ UNCHANGED <<now, locks, agents, call, ops, crashes, config, cache>>

\* loop head and m.IsStale(&lock) on the next listed lock
CsCheck(p) ==
    /\ pc[p] = "cs_check"
    /\ IF loc[p].todo = <<>>
       THEN Finish(p, Ret("ok"))
       ELSE LET stale == IsStale(Head(loc[p].todo), now, agents) IN
            /\ loc' = [loc EXCEPT ![p].stale = stale,
                                  ![p].todo = IF stale THEN @ ELSE Tail(@)]
            /\ Goto(p, IF stale THEN "cs_remove" ELSE "cs_check")
    /\ UNCHANGED <<now, locks, agents, call, ops, crashes, config, cache>>

\* variant: the file is removed and the resource is not reported
CsRemoveUnreported(p) ==
    /\ pc[p] = "cs_remove"
    /\ LET l == Head(loc[p].todo)
           k == lockPath(l.resource) IN
       /\ locks' = [locks EXCEPT ![k] = NoFile]
       /\ loc' = [loc EXCEPT ![p].todo = Tail(@)]
    /\ Goto(p, "cs_check")
    /\ UNCHANGED <<now, agents, call, ops, crashes, config, cache>>

\* os.Remove(m.lockPath(lock.Resource)); cleaned grows only on success
CsRemove(p) ==
    /\ pc[p] = "cs_remove"
    /\ LET l == Head(loc[p].todo)
           k == lockPath(l.resource) IN
       IF locks[k].kind # "none"
       THEN /\ locks' = [locks EXCEPT ![k] = NoFile]
            /\ loc' = [loc EXCEPT ![p].todo = Tail(@),
                                  ![p].cleaned = Append(@, l.resource)]
       ELSE /\ loc' = [loc EXCEPT ![p].todo = Tail(@)]
            /\ UNCHANGED locks
    /\ Goto(p, "cs_check")
    /\ UNCHANGED <<now, agents, call, ops, crashes, config, cache>>

----------------------------------------------------------------------------
(* agent.Manager *)

Heartbeat(p, id) ==
    /\ Begin(p, [op |-> "Heartbeat", resource |-> <<>>, agentID |-> id,
                 ttl |-> 0], "hb_read")
    /\ loc' = [loc EXCEPT ![p] = NoLoc]
    /\ UNCHANGED <<now, locks, agents>>

\* variant: Register(id, "") whether a record can be read or not
HbReadRegisters(p) ==
    /\ pc[p] = "hb_read"
    /\ loc' = [loc EXCEPT ![p].agent = Agent(call[p].agentID, now, now, now)]
    /\ Goto(p, "save_open")
    /\ UNCHANGED <<now, locks, agents, call, ops, crashes, config, cache>>

\* m.Read(id); without a readable record Register(id, "") builds a new one
HbRead(p) ==
    /\ pc[p] = "hb_read"
    /\ LET f == agents[call[p].agentID] IN
       loc' = [loc EXCEPT ![p].agent =
                 IF Parseable(f)
                 THEN [f EXCEPT !.last_heartbeat = now]
                 ELSE Agent(call[p].agentID, now, now, now)]
    /\ Goto(p, "save_open")
    /\ UNCHANGED <<now, locks, agents, call, ops, crashes, config, cache>>

\* save: os.WriteFile opens the file with O_WRONLY|O_CREATE|O_TRUNC ...
SaveOpen(p) ==
    /\ pc[p] = "save_open"
    /\ agents' = [agents EXCEPT ![call[p].agentID] = EmptyFile(p, now)]
    /\ Goto(p, "save_write")
    /\ UNCHANGED <<now, locks, call, loc, ops, crashes, config, cache>>

\* ... and then writes the marshalled record
SaveWrite(p) ==
    /\ pc[p] = "save_write"
    /\ LET id == call[p].agentID IN
       IF agents[id].kind = "none"
       THEN UNCHANGED agents
       ELSE agents' = [agents EXCEPT ![id] = [loc[p].agent EXCEPT !.mtime = now]]
    /\ Return(p, Ret("ok"))
    /\ UNCHANGED <<now, locks, call, ops, crashes, config, cache>>

\* os.Remove(agentPath); a missing file is not an error
Deregister(p, id) ==
    /\ Begin(p, [op |-> "Deregister", resource |-> <<>>, agentID |-> id,
                 ttl |-> 0], "dereg")
    /\ loc' = [loc EXCEPT ![p] = NoLoc]
    /\ UNCHANGED <<now, locks, agents>>

\* a Deregister that gives up the agent's locks as well
DeregRemoveReleases(p) ==
    /\ pc[p] = "dereg"
    /\ agents' = [agents EXCEPT ![call[p].agentID] = NoFile]
    /\ locks' = [k \in Keys |->
                    IF locks[k].kind = "rec"
                       /\ locks[k].agent_id = call[p].agentID
                    THEN NoFile ELSE locks[k]]
    /\ Finish(p, Ret("ok"))
    /\ UNCHANGED <<now, call, ops, crashes, config, cache>>

DeregRemove(p) ==
    /\ pc[p] = "dereg"
    /\ agents' = [agents EXCEPT ![call[p].agentID] = NoFile]
    /\ Finish(p, Ret("ok"))
    /\ UNCHANGED <<now, locks, call, ops, crashes, config, cache>>

\* Register(id, name): a new record with started_at and last_heartbeat at
\* time.Now(), saved over whatever is there
Register(p, id, name) ==
    /\ Begin(p, [op |-> "Register", resource |-> <<>>, agentID |-> id,
                 ttl |-> 0], "save_open")
    /\ loc' = [loc EXCEPT ![p] =
                 [NoLoc EXCEPT !.agent =
                     [Agent(id, now, now, now) EXCEPT !.name = name]]]
    /\ UNCHANGED <<now, locks, agents>>

UpdateTask(p, id, task) ==
    /\ Begin(p, [op |-> "UpdateTask", resource |-> <<>>, agentID |-> id,
                 ttl |-> 0, task |-> task], "ut_read")
    /\ loc' = [loc EXCEPT ![p] = NoLoc]
    /\ UNCHANGED <<now, locks, agents>>

\* the error m.Read returns: os.ReadFile's or json.Unmarshal's
ReadError(f) == Ret(IF f.kind = "none" THEN "notexist" ELSE "ioerr")

\* variant: the task is set and last_heartbeat is left as it was read
UtReadKeepsHeartbeat(p) ==
    /\ pc[p] = "ut_read"
    /\ LET f == agents[call[p].agentID] IN
       IF Parseable(f)
       THEN /\ loc' = [loc EXCEPT ![p].agent =
                         [f EXCEPT !.current_task = call[p].task]]
            /\ Goto(p, "save_open")
       ELSE Finish(p, ReadError(f))
    /\ UNCHANGED <<now, locks, agents, call, ops, crashes, config, cache>>

\* m.Read(id); agent.CurrentTask = task; agent.LastHeartbeat = time.Now()
UtRead(p) ==
    /\ pc[p] = "ut_read"
    /\ LET f == agents[call[p].agentID] IN
       IF Parseable(f)
       THEN /\ loc' = [loc EXCEPT ![p].agent =
                         [f EXCEPT !.current_task = call[p].task,
                                   !.last_heartbeat = now]]
            /\ Goto(p, "save_open")
       ELSE Finish(p, ReadError(f))
    /\ UNCHANGED <<now, locks, agents, call, ops, crashes, config, cache>>

UpdateLocks(p, id, held) ==
    /\ Begin(p, [op |-> "UpdateLocks", resource |-> <<>>, agentID |-> id,
                 ttl |-> 0, held |-> held], "ul_read")
    /\ loc' = [loc EXCEPT ![p] = NoLoc]
    /\ UNCHANGED <<now, locks, agents>>

\* m.Read(id); agent.LocksHeld = locks; agent.LastHeartbeat = time.Now()
UlRead(p) ==
    /\ pc[p] = "ul_read"
    /\ LET f == agents[call[p].agentID] IN
       IF Parseable(f)
       THEN /\ loc' = [loc EXCEPT ![p].agent =
                         [f EXCEPT !.locks_held = call[p].held,
                                   !.last_heartbeat = now]]
            /\ Goto(p, "save_open")
       ELSE Finish(p, ReadError(f))
    /\ UNCHANGED <<now, locks, agents, call, ops, crashes, config, cache>>

----------------------------------------------------------------------------
(* claude-coord heartbeat --daemon: runHeartbeat and Manager.RunHeartbeat *)

\* --interval, in seconds
HeartbeatInterval == 1

\* the ticker is created, its first tick one interval ahead; nothing is sent
\* before that tick
Daemon(p, id) ==
    /\ Begin(p, [op |-> "Daemon", resource |-> <<>>, agentID |-> id,
                 ttl |-> 0], "hbd_select")
    /\ loc' = [loc EXCEPT ![p] =
                 [NoLoc EXCEPT !.wake = now + HeartbeatInterval]]
    /\ UNCHANGED <<now, locks, agents>>

\* SIGINT or SIGTERM arrives on the channel sigs
Interrupt(p) ==
    /\ call[p].op = "Daemon" /\ pc[p] # "done"
    /\ loc[p].sig = "none"
    /\ loc' = [loc EXCEPT ![p].sig = "sent"]
    /\ UNCHANGED <<now, locks, agents, pc, call, ret, ops, crashes,
                   config, cache>>

\* the goroutine: <-sigs; close(stop)
SigClose(p) ==
    /\ call[p].op = "Daemon" /\ pc[p] # "done"
    /\ loc[p].sig = "sent"
    /\ loc' = [loc EXCEPT ![p].sig = "closed"]
    /\ UNCHANGED <<now, locks, agents, pc, call, ret, ops, crashes,
                   config, cache>>

\* case <-ticker.C: m.Heartbeat(id); the ticker keeps one tick at most and
\* drops the ticks that find the channel full
HbdTick(p) ==
    /\ pc[p] = "hbd_select"
    /\ now >= loc[p].wake
    /\ loc' = [loc EXCEPT ![p].wake =
                 @ + HeartbeatInterval * ((now - @) \div HeartbeatInterval + 1)]
    /\ Goto(p, "hb_read")
    /\ UNCHANGED <<now, locks, agents, call, ops, crashes, config, cache>>

\* variant: the daemon removes the agent's record when it stops
HbdStopDeregisters(p) ==
    /\ pc[p] = "hbd_select"
    /\ loc[p].sig = "closed"
    /\ agents' = [agents EXCEPT ![call[p].agentID] = NoFile]
    /\ Finish(p, Ret("ok"))
    /\ UNCHANGED <<now, locks, call, ops, crashes, config, cache>>

\* case <-stop: return
HbdStop(p) ==
    /\ pc[p] = "hbd_select"
    /\ loc[p].sig = "closed"
    /\ Finish(p, Ret("ok"))
    /\ UNCHANGED <<now, locks, agents, call, ops, crashes, config, cache>>

----------------------------------------------------------------------------
(* agent.Manager.CleanStale *)

\* os.ReadDir of the agents directory, sorted by file name
AgentOrder == <<"A", "B", "C">>

\* agent.Manager.List: the entries that cannot be read or parsed are skipped
RECURSIVE AgentListFrom(_, _)
AgentListFrom(dir, i) ==
    IF i > Len(AgentOrder) THEN <<>>
    ELSE IF Parseable(dir[AgentOrder[i]])
         THEN <<dir[AgentOrder[i]]>> \o AgentListFrom(dir, i + 1)
         ELSE AgentListFrom(dir, i + 1)

AgentList(dir) == AgentListFrom(dir, 1)

\* variant: a heartbeat exactly stale_threshold old still counts as alive
IsAliveAtThreshold(agent, t) == t - agent.last_heartbeat <= StaleThreshold

\* time.Since(agent.LastHeartbeat) < threshold
IsAlive(agent, t) == t - agent.last_heartbeat < StaleThreshold

AgentCleanStale(p) ==
    /\ Begin(p, [op |-> "AgentCleanStale", resource |-> <<>>,
                 agentID |-> "-", ttl |-> 0], "acs_list")
    /\ loc' = [loc EXCEPT ![p] = NoLoc]
    /\ UNCHANGED <<now, locks, agents>>

\* agents, err := m.List()
AcsList(p) ==
    /\ pc[p] = "acs_list"
    /\ loc' = [loc EXCEPT ![p].todo = AgentList(agents)]
    /\ Goto(p, "acs_check")
    /\ UNCHANGED <<now, locks, agents, call, ops, crashes, config, cache>>

\* loop head and !m.IsAlive(&agent) on the next listed agent
AcsCheck(p) ==
    /\ pc[p] = "acs_check"
    /\ IF loc[p].todo = <<>>
       THEN Finish(p, Ret("ok"))
       ELSE IF IsAlive(Head(loc[p].todo), now)
            THEN /\ loc' = [loc EXCEPT ![p].todo = Tail(@)]
                 /\ Goto(p, "acs_check")
            ELSE /\ Goto(p, "acs_remove")
                 /\ UNCHANGED loc
    /\ UNCHANGED <<now, locks, agents, call, ops, crashes, config, cache>>

\* m.Deregister(agent.ID): a file already gone is no error, the ID is
\* reported as cleaned all the same
AcsRemove(p) ==
    /\ pc[p] = "acs_remove"
    /\ LET id == Head(loc[p].todo).agent_id IN
       /\ agents' = [agents EXCEPT ![id] = NoFile]
       /\ loc' = [loc EXCEPT ![p].todo = Tail(@),
                             ![p].cleaned = Append(@, id)]
    /\ Goto(p, "acs_check")
    /\ UNCHANGED <<now, locks, call, ops, crashes, config, cache>>

----------------------------------------------------------------------------
(* lock.Manager.ReleaseAll *)

ReleaseAll(p, agentID) ==
    /\ Begin(p, [op |-> "ReleaseAll", resource |-> <<>>, agentID |-> agentID,
                 ttl |-> 0], "ra_list")
    /\ loc' = [loc EXCEPT ![p] = NoLoc]
    /\ UNCHANGED <<now, locks, agents>>

\* locks, err := m.List()
RaList(p) ==
    /\ pc[p] = "ra_list"
    /\ loc' = [loc EXCEPT ![p].todo = List(locks)]
    /\ Goto(p, "ra_loop")
    /\ UNCHANGED <<now, locks, agents, call, ops, crashes, config, cache>>

\* variant: every listed lock is handed to m.Release
RaLoopAnyOwner(p) ==
    /\ pc[p] = "ra_loop"
    /\ IF loc[p].todo = <<>>
       THEN /\ Finish(p, Ret(IF loc[p].errs = <<>> THEN "ok" ELSE "failed"))
            /\ UNCHANGED call
       ELSE /\ call' = [call EXCEPT ![p].resource = Head(loc[p].todo).resource]
            /\ Goto(p, "rel_read")
            /\ UNCHANGED loc
    /\ UNCHANGED <<now, locks, agents, ops, crashes, config, cache>>

\* loop head: a listed lock of the agent is handed to m.Release
RaLoop(p) ==
    /\ pc[p] = "ra_loop"
    /\ IF loc[p].todo = <<>>
       THEN /\ Finish(p, Ret(IF loc[p].errs = <<>> THEN "ok" ELSE "failed"))
            /\ UNCHANGED call
       ELSE LET l == Head(loc[p].todo) IN
            IF l.agent_id = call[p].agentID
            THEN /\ call' = [call EXCEPT ![p].resource = l.resource]
                 /\ Goto(p, "rel_read")
                 /\ UNCHANGED loc
            ELSE /\ loc' = [loc EXCEPT ![p].todo = Tail(@)]
                 /\ Goto(p, "ra_loop")
                 /\ UNCHANGED call
    /\ UNCHANGED <<now, locks, agents, ops, crashes, config, cache>>

\* variant: the first failure ends the loop
RaNextAborts(p) ==
    /\ pc[p] = "ra_next"
    /\ IF ret[p].err = "ok"
       THEN /\ loc' = [loc EXCEPT ![p].todo = Tail(@)]
            /\ Goto(p, "ra_loop")
       ELSE Finish(p, Ret("failed"))
    /\ UNCHANGED <<now, locks, agents, call, ops, crashes, config, cache>>

\* m.Release has returned: errs = append(errs, err) if it failed
RaNext(p) ==
    /\ pc[p] = "ra_next"
    /\ loc' = [loc EXCEPT ![p].todo = Tail(@),
                          ![p].errs = IF ret[p].err = "ok" THEN @
                                      ELSE Append(@, ret[p].err)]
    /\ Goto(p, "ra_loop")
    /\ UNCHANGED <<now, locks, agents, call, ops, crashes, config, cache>>

----------------------------------------------------------------------------
(* Protected patterns: lock.Manager.Check and CheckOrAcquire *)

\* doublestar.Match(pattern, name) from position i of the pattern and j of the
\* name: "?" and "*" stay inside one path component, "**" as a whole component
\* spans any number of them
RECURSIVE Glob(_, _, _, _)
Glob(pat, i, name, j) ==
    IF i > Len(pat) THEN j > Len(name)
    ELSE IF /\ pat[i] = "*" /\ i < Len(pat) /\ pat[i + 1] = "*"
            /\ (i = 1 \/ pat[i - 1] = "/")
            /\ (i + 1 = Len(pat) \/ pat[i + 2] = "/")
         THEN IF i + 1 = Len(pat) THEN TRUE
              ELSE \/ Glob(pat, i + 3, name, j)
                   \/ \E k \in j .. Len(name) :
                         name[k] = "/" /\ Glob(pat, i + 3, name, k + 1)
    ELSE IF pat[i] = "*"
         THEN \E k \in j .. (Len(name) + 1) :
                 /\ \A m \in j .. (k - 1) : name[m] # "/"
                 /\ Glob(pat, i + 1, name, k)
    ELSE IF pat[i] = "?"
         THEN j <= Len(name) /\ name[j] # "/" /\ Glob(pat, i + 1, name, j + 1)
    ELSE j <= Len(name) /\ name[j] = pat[i] /\ Glob(pat, i + 1, name, j + 1)

\* a character class that is never closed: ErrBadPattern
BadPattern(pat) ==
    \E i \in DOMAIN pat :
        pat[i] = "[" /\ \A k \in (i + 1) .. Len(pat) : pat[k] # "]"

\* the two results of doublestar.Match; every error return is (false, err)
Match(pat, name) ==
    IF BadPattern(pat) THEN [matched |-> FALSE, err |-> TRUE]
    ELSE [matched |-> Glob(pat, 1, name, 1), err |-> FALSE]

\* Check: the first pattern that matches; a pattern in error is skipped
RECURSIVE CheckPattern(_, _, _)
CheckPattern(protected, filePath, i) ==
    IF i > Len(protected) THEN <<>>
    ELSE LET r == Match(protected[i], filePath) IN
         IF r.err THEN CheckPattern(protected, filePath, i + 1)
         ELSE IF r.matched THEN protected[i]
         ELSE CheckPattern(protected, filePath, i + 1)

\* variant: the last pattern that matches
RECURSIVE AcquirePatternLast(_, _, _)
AcquirePatternLast(protected, filePath, i) ==
    LET rest == IF i >= Len(protected) THEN <<>>
                ELSE AcquirePatternLast(protected, filePath, i + 1) IN
    IF i > Len(protected) THEN <<>>
    ELSE IF rest # <<>> THEN rest
    ELSE IF Match(protected[i], filePath).matched THEN protected[i]
    ELSE <<>>

\* CheckOrAcquire: the first pattern that matches, the error not looked at
RECURSIVE AcquirePattern(_, _, _)
AcquirePattern(protected, filePath, i) ==
    IF i > Len(protected) THEN <<>>
    ELSE IF Match(protected[i], filePath).matched THEN protected[i]
    ELSE AcquirePattern(protected, filePath, i + 1)

\* variant: only a lock on the matched pattern itself counts
RECURSIVE CoveringExact(_, _, _)
CoveringExact(ls, matchedPattern, filePath) ==
    IF ls = <<>> THEN NoFile
    ELSE IF Head(ls).resource = matchedPattern THEN Head(ls)
    ELSE CoveringExact(Tail(ls), matchedPattern, filePath)

\* Check: the first listed lock on the matched pattern or on a resource that
\* itself matches the file
RECURSIVE Covering(_, _, _)
Covering(ls, matchedPattern, filePath) ==
    IF ls = <<>> THEN NoFile
    ELSE IF \/ Head(ls).resource = matchedPattern
            \/ Match(Head(ls).resource, filePath).matched
         THEN Head(ls)
    ELSE Covering(Tail(ls), matchedPattern, filePath)

\* claude-coord check <file>: m.Check, and a lock of another agent is reported
Check(p, filePath, agentID, protected) ==
    /\ Begin(p, [op |-> "Check", resource |-> <<>>, agentID |-> agentID,
                 ttl |-> 0, file |-> filePath, protected |-> protected],
             "chk_list")
    /\ loc' = [loc EXCEPT ![p] =
                 [NoLoc EXCEPT !.matched = CheckPattern(protected, filePath, 1)]]
    /\ UNCHANGED <<now, locks, agents>>

ChkList(p) ==
    /\ pc[p] = "chk_list"
    /\ IF loc[p].matched = <<>>
       THEN Finish(p, Ret("ok"))
       ELSE LET l == Covering(List(locks), loc[p].matched, call[p].file) IN
            Finish(p, [err |-> IF l.kind = "rec" /\ l.agent_id # call[p].agentID
                               THEN "blocked" ELSE "ok",
                       owner |-> IF l.kind = "rec" THEN l.agent_id ELSE "-",
                       lock |-> l])
    /\ UNCHANGED <<now, locks, agents, call, ops, crashes, config, cache>>

CheckOrAcquire(p, filePath, agentID, protected) ==
    /\ Begin(p, [op |-> "CheckOrAcquire", resource |-> <<>>,
                 agentID |-> agentID, ttl |-> 0, file |-> filePath,
                 protected |-> protected], "coa_check")
    /\ loc' = [loc EXCEPT ![p] =
                 [NoLoc EXCEPT !.matched = CheckPattern(protected, filePath, 1)]]
    /\ UNCHANGED <<now, locks, agents>>

\* variant: a covering lock is a conflict, the caller's own lock included
CoaCheckNoOwn(p) ==
    /\ pc[p] = "coa_check"
    /\ IF loc[p].matched = <<>>
       THEN Finish(p, Ret("ok"))
       ELSE LET l == Covering(List(locks), loc[p].matched, call[p].file) IN
            IF l.kind = "rec"
            THEN Finish(p, [Conflict(l.agent_id) EXCEPT !.lock = l])
            ELSE /\ Goto(p, "coa_acquire")
                 /\ UNCHANGED loc
    /\ UNCHANGED <<now, locks, agents, call, ops, crashes, config, cache>>

\* variant: the caller's own lock is written again with a new acquired_at
CoaCheckRefreshes(p) ==
    /\ pc[p] = "coa_check"
    /\ IF loc[p].matched = <<>>
       THEN Finish(p, Ret("ok")) /\ UNCHANGED locks
       ELSE LET l == Covering(List(locks), loc[p].matched, call[p].file) IN
            IF l.kind = "rec"
            THEN IF l.agent_id = call[p].agentID
                 THEN /\ locks' = [locks EXCEPT ![lockPath(l.resource)] =
                                      [l EXCEPT !.acquired_at = now]]
                      /\ Finish(p, [Ret("ok") EXCEPT
                                       !.lock = [l EXCEPT !.acquired_at = now]])
                 ELSE /\ Finish(p, [Conflict(l.agent_id) EXCEPT !.lock = l])
                      /\ UNCHANGED locks
            ELSE /\ Goto(p, "coa_acquire")
                 /\ UNCHANGED <<loc, locks>>
    /\ UNCHANGED <<now, agents, call, ops, crashes, config, cache>>

\* lock, protected, err := m.Check(filePath) and what follows from it
CoaCheck(p) ==
    /\ pc[p] = "coa_check"
    /\ IF loc[p].matched = <<>>
       THEN Finish(p, Ret("ok"))
       ELSE LET l == Covering(List(locks), loc[p].matched, call[p].file) IN
            IF l.kind = "rec"
            THEN Finish(p, IF l.agent_id = call[p].agentID
                           THEN [Ret("ok") EXCEPT !.lock = l]
                           ELSE [Conflict(l.agent_id) EXCEPT !.lock = l])
            ELSE /\ Goto(p, "coa_acquire")
                 /\ UNCHANGED loc
    /\ UNCHANGED <<now, locks, agents, call, ops, crashes, config, cache>>

\* the pattern is looked up again and m.Acquire(resource, ..., 0) is entered
CoaAcquire(p) ==
    /\ pc[p] = "coa_acquire"
    /\ LET resource == AcquirePattern(call[p].protected, call[p].file, 1) IN
       /\ call' = [call EXCEPT ![p].resource = resource, ![p].ttl = DefaultTTL]
       /\ loc' = [loc EXCEPT ![p].lock =
                    Lock(resource, call[p].agentID, now, DefaultTTL)]
    /\ Goto(p, "acq_open")
    /\ UNCHANGED <<now, locks, agents, ops, crashes, config, cache>>

\* return m.Read(resource)
CoaRead(p) ==
    /\ pc[p] = "coa_read"
    /\ LET f == locks[lockPath(call[p].resource)] IN
       Finish(p, IF Parseable(f) THEN [Ret("ok") EXCEPT !.lock = f]
                 ELSE Ret("ioerr"))
    /\ UNCHANGED <<now, locks, agents, call, ops, crashes, config, cache>>

----------------------------------------------------------------------------
(* claude-coord check [--acquire] <file>...: runCheck and the cache of the
   files known not to be protected *)

\* hashConfig: SHA-256 of the JSON list of the patterns, taken to be free of
\* collisions: two hashes are equal exactly when the lists are, order included
hashConfig(protected) == protected

\* cache.Load: the content of check-cache.json if it can be read and parsed
Load(f) == IF Parseable(f)
           THEN [hashed |-> f.hashed, hash |-> f.hash, np |-> f.np]
           ELSE EmptyCache

\* an empty ConfigHash is the hash of no pattern list
IsValid(c, protected) == c.hashed /\ c.hash = hashConfig(protected)

Reset(c, protected) ==
    [hashed |-> TRUE, hash |-> hashConfig(protected), np |-> {}]

IsNotProtected(c, filePath) == filePath \in c.np

MarkNotProtected(c, filePath) == [c EXCEPT !.np = @ \cup {filePath}]

\* the command starts with the configuration root.go has just loaded
RunCheck(p, files, agentID, acquire) ==
    /\ Begin(p, [op |-> "RunCheck", resource |-> <<>>, agentID |-> agentID,
                 ttl |-> 0, file |-> <<>>, protected |-> config,
                 acquire |-> acquire, files |-> files], "rc_load")
    /\ loc' = [loc EXCEPT ![p] = [NoLoc EXCEPT !.todo = files]]
    /\ UNCHANGED <<now, locks, agents>>

\* variant: the loaded cache is used whatever hash it carries
RcLoadKeepsCache(p) ==
    /\ pc[p] = "rc_load"
    /\ loc' = [loc EXCEPT ![p].checkCache =
                 [Load(cache) EXCEPT !.hashed = TRUE,
                                     !.hash = hashConfig(call[p].protected)]]
    /\ Goto(p, "rc_file")
    /\ UNCHANGED <<now, locks, agents, call, ops, crashes, config, cache>>

\* checkCache := cache.Load(coordDir); Reset unless IsValid
RcLoad(p) ==
    /\ pc[p] = "rc_load"
    /\ LET c == Load(cache) IN
       loc' = [loc EXCEPT ![p].checkCache =
                 IF IsValid(c, call[p].protected) THEN c
                 ELSE Reset(c, call[p].protected)]
    /\ Goto(p, "rc_file")
    /\ UNCHANGED <<now, locks, agents, call, ops, crashes, config, cache>>

\* loop head: a file found in the cache is skipped, any other is handed to
\* CheckOrAcquire or to Check; after the last file the cache is saved if it
\* was modified
RcFile(p) ==
    /\ pc[p] = "rc_file"
    /\ IF loc[p].todo = <<>>
       THEN /\ Goto(p, IF loc[p].cacheModified THEN "rc_save" ELSE "rc_exit")
            /\ UNCHANGED <<loc, call>>
       ELSE LET f == Head(loc[p].todo) IN
            IF IsNotProtected(loc[p].checkCache, f)
            THEN /\ loc' = [loc EXCEPT ![p].todo = Tail(@)]
                 /\ Goto(p, "rc_file")
                 /\ UNCHANGED call
            ELSE /\ call' = [call EXCEPT ![p].file = f]
                 /\ loc' = [loc EXCEPT ![p].matched =
                              CheckPattern(call[p].protected, f, 1)]
                 /\ Goto(p, IF call[p].acquire THEN "coa_check"
                            ELSE "chk_list")
    /\ UNCHANGED <<now, locks, agents, ops, crashes, config, cache>>

\* what runCheck does with the result for the file: existingLock.AgentID is
\* read whenever CheckOrAcquire has returned an error, and the read of a nil
\* lock ends the process
RcResult(p) ==
    /\ pc[p] = "rc_result"
    /\ LET f == call[p].file
           l == ret[p].lock
           next == [loc[p] EXCEPT !.todo = Tail(@)]
           mark == [next EXCEPT
                       !.checkCache = MarkNotProtected(@, f),
                       !.cacheModified = TRUE]
           block == [next EXCEPT !.blocked = Append(@, f)]
       IN
       IF call[p].acquire
       THEN IF ret[p].err # "ok"
            THEN IF l.kind = "rec"
                 THEN /\ loc' = [loc EXCEPT ![p] = block]
                      /\ pc' = [pc EXCEPT ![p] = "rc_file"]
                 ELSE /\ pc' = [pc EXCEPT ![p] = "panic"]
                      /\ UNCHANGED loc
            ELSE /\ loc' = [loc EXCEPT ![p] =
                              IF l.kind = "rec"
                              THEN [next EXCEPT !.acquired = Append(@, f)]
                              ELSE mark]
                 /\ pc' = [pc EXCEPT ![p] = "rc_file"]
       ELSE /\ loc' = [loc EXCEPT ![p] =
                         IF loc[p].matched = <<>> THEN mark
                         ELSE IF l.kind = "rec" /\ l.agent_id # call[p].agentID
                              THEN block
                         ELSE next]
            /\ pc' = [pc EXCEPT ![p] = "rc_file"]
    /\ UNCHANGED <<now, locks, agents, call, ret, ops, crashes, config, cache>>

\* checkCache.Save(): os.WriteFile truncates check-cache.json and writes it
RcSave(p) ==
    /\ pc[p] = "rc_save"
    /\ cache' = EmptyFile(p, now)
    /\ Goto(p, "rc_write")
    /\ UNCHANGED <<now, locks, agents, call, loc, ops, crashes, config>>

RcWrite(p) ==
    /\ pc[p] = "rc_write"
    /\ cache' = [kind |-> "rec", hashed |-> loc[p].checkCache.hashed,
                 hash |-> loc[p].checkCache.hash, np |-> loc[p].checkCache.np]
    /\ Goto(p, "rc_exit")
    /\ UNCHANGED <<now, locks, agents, call, loc, ops, crashes, config>>

\* "blocked by %d lock(s)" or nil
RcExit(p) ==
    /\ pc[p] = "rc_exit"
    /\ pc' = [pc EXCEPT ![p] = "done"]
    /\ ret' = [ret EXCEPT ![p] =
                 Ret(IF loc[p].blocked = <<>> THEN "ok" ELSE "blocked")]
    /\ UNCHANGED <<now, locks, agents, call, loc, ops, crashes, config, cache>>

----------------------------------------------------------------------------
(* claude-coord wait <resource> --timeout --interval *)

\* --interval, in seconds
WaitInterval == 1

\* --timeout, in seconds: 0 waits without limit
WaitTimeouts == {0, 1}

\* start := time.Now(); the invocation is given the time it may need
Wait(p, resource, timeout) ==
    /\ now + timeout + WaitInterval <= MaxTime
    /\ Begin(p, [op |-> "Wait", resource |-> resource, agentID |-> "-",
                 ttl |-> 0, timeout |-> timeout], "wait_read")
    /\ loc' = [loc EXCEPT ![p] = [NoLoc EXCEPT !.start = now]]
    /\ UNCHANGED <<now, locks, agents>>

\* lockMgr.Read(resource): any error means the resource is free
WaitRead(p) ==
    /\ pc[p] = "wait_read"
    /\ LET f == locks[lockPath(call[p].resource)] IN
       IF Parseable(f)
       THEN /\ loc' = [loc EXCEPT ![p].existing = f]
            /\ Goto(p, "wait_stale")
       ELSE Finish(p, Ret("ok"))
    /\ UNCHANGED <<now, locks, agents, call, ops, crashes, config, cache>>

\* lockMgr.IsStale(existingLock): a stale lock counts as free
WaitStale(p) ==
    /\ pc[p] = "wait_stale"
    /\ IF IsStale(loc[p].existing, now, agents)
       THEN Finish(p, Ret("ok"))
       ELSE /\ Goto(p, "wait_timeout")
            /\ UNCHANGED loc
    /\ UNCHANGED <<now, locks, agents, call, ops, crashes, config, cache>>

\* variant: the timeout error is returned as soon as the timeout is reached
WaitTimeoutAtLimit(p) ==
    /\ pc[p] = "wait_timeout"
    /\ IF call[p].timeout > 0 /\ now - loc[p].start >= call[p].timeout
       THEN Finish(p, [Ret("timeout") EXCEPT
                          !.owner = loc[p].existing.agent_id])
       ELSE /\ loc' = [loc EXCEPT ![p].wake = now + WaitInterval]
            /\ Goto(p, "wait_sleep")
    /\ UNCHANGED <<now, locks, agents, call, ops, crashes, config, cache>>

\* waitTimeout > 0 && time.Since(start) > timeout, else time.Sleep is entered
WaitTimeout(p) ==
    /\ pc[p] = "wait_timeout"
    /\ IF call[p].timeout > 0 /\ now - loc[p].start > call[p].timeout
       THEN Finish(p, [Ret("timeout") EXCEPT
                          !.owner = loc[p].existing.agent_id])
       ELSE /\ loc' = [loc EXCEPT ![p].wake = now + WaitInterval]
            /\ Goto(p, "wait_sleep")
    /\ UNCHANGED <<now, locks, agents, call, ops, crashes, config, cache>>

\* time.Sleep(checkInterval) returns, not before the interval is over
WaitSleep(p) ==
    /\ pc[p] = "wait_sleep"
    /\ now >= loc[p].wake
    /\ Goto(p, "wait_read")
    /\ UNCHANGED <<now, locks, agents, call, loc, ops, crashes, config, cache>>

----------------------------------------------------------------------------
(* The process is killed in the middle of an operation *)

Crash(p) ==
    /\ pc[p] \notin {"idle", "done", "crashed"}
    /\ pc' = [pc EXCEPT ![p] = "crashed"]
    /\ call' = [call EXCEPT ![p] = NoCall]
    /\ loc' = [loc EXCEPT ![p] = NoLoc]
    /\ ret' = [ret EXCEPT ![p] = NoRet]
    /\ crashes < MaxCrashes
    /\ crashes' = crashes + 1
    /\ UNCHANGED <<now, locks, agents, ops, config, cache>>

----------------------------------------------------------------------------

Step(p) ==
    \/ AcqOpen(p) \/ AcqWrite(p) \/ AcqRead(p) \/ AcqStale(p)
    \/ AcqRemove(p) \/ AcqAgain(p)
    \/ RelRead(p) \/ RelRemove(p)
    \/ CsList(p) \/ CsCheck(p) \/ CsRemove(p)
    \/ HbRead(p) \/ SaveOpen(p) \/ SaveWrite(p)
    \/ DeregRemove(p)

Start(p) ==
    \/ \E r \in Resources, a \in AgentsOf(p), t \in TTLArgs : Acquire(p, r, a, t)
    \/ \E r \in Resources, a \in AgentsOf(p) : Release(p, r, a)
    \/ CleanStale(p)
    \/ \E a \in AgentsOf(p) : Heartbeat(p, a)
    \/ \E a \in AgentsOf(p) : Deregister(p, a)

Next ==
    \/ Tick
    \/ \E p \in Procs : Start(p) \/ Step(p) \/ Crash(p)

Spec == Init /\ [][Next]_vars

\* one invocation at a time: nothing starts or moves while another process is
\* inside an operation, and nobody is killed
Alone(p) == \A q \in Procs \ {p} : pc[q] \in {"idle", "done"}

SeqProcs == {"A", "B"}

SeqNext ==
    \/ Tick
    \/ \E p \in SeqProcs : Alone(p) /\ (Start(p) \/ Step(p))

SeqSpec == Init /\ [][SeqNext]_vars

\* the staleness decision on every store a finished run can leave behind: a
\* lock of agent A of any age and TTL, A's heartbeat file absent or of any age,
\* and two invocations still to run, one at a time
TTLValues == 1 .. (DefaultTTL + 1)

StaleInit ==
    /\ now \in 0 .. MaxTime
    /\ \E at \in 0 .. now, ttl \in TTLValues :
          locks = [k \in Keys |-> IF k = lockPath(ResDB)
                                  THEN Lock(ResDB, "A", at, ttl)
                                  ELSE NoFile]
    /\ \E hb \in (-1) .. now :
          agents = [a \in AgentIDs |->
                      IF a = "A" /\ hb >= 0 THEN Agent("A", hb, hb, hb)
                      ELSE NoFile]
    /\ pc = [p \in Procs |-> "idle"]
    /\ call = [p \in Procs |-> NoCall]
    /\ loc = [p \in Procs |-> NoLoc]
    /\ ret = [p \in Procs |-> NoRet]
    /\ ops = MaxOps - 2
    /\ crashes = 0
    /\ config = Protected
    /\ cache = NoFile

StaleSpec == StaleInit /\ [][SeqNext]_vars

\* the commands of the protected-file workflow, one at a time, on every store
\* that earlier Acquire calls of two agents can have left behind, the first
\* agent with or without a heartbeat file
FileDA == <<"d", "/", "a">>
FileDB == <<"d", "/", "b">>
FileDC == <<"d", "/", "c">>
FileE == <<"e">>
Files == {FileDA, FileDB, FileDC, FileE}

Stores(started) ==
    /\ now = 0
    /\ locks \in [Keys -> {NoFile} \cup
                           {Lock(r, a, 0, DefaultTTL) :
                               r \in AllResources, a \in SeqProcs}]
    /\ \A r \in AllResources :
          locks[lockPath(r)].kind = "rec" => locks[lockPath(r)].resource = r
    /\ \E hb \in BOOLEAN :
          agents = [a \in AgentIDs |->
                      IF a = "A" /\ hb THEN Agent("A", 0, 0, 0) ELSE NoFile]
    /\ pc = [p \in Procs |-> "idle"]
    /\ call = [p \in Procs |-> NoCall]
    /\ loc = [p \in Procs |-> NoLoc]
    /\ ret = [p \in Procs |-> NoRet]
    /\ ops = started
    /\ crashes = 0
    /\ config = Protected
    /\ cache = NoFile

StoreInit == Stores(MaxOps - 2)

StoreStart(p) ==
    \/ \E r \in AllResources, a \in AgentsOf(p) : Acquire(p, r, a, 0)
    \/ \E r \in AllResources, a \in AgentsOf(p) : Release(p, r, a)
    \/ \E a \in AgentsOf(p) : ReleaseAll(p, a)
    \/ \E f \in Files, a \in AgentsOf(p) : Check(p, f, a, Protected)
    \/ \E f \in Files, a \in AgentsOf(p) : CheckOrAcquire(p, f, a, Protected)

StoreStep(p) ==
    \/ AcqOpen(p) \/ AcqWrite(p) \/ AcqRead(p) \/ AcqStale(p)
    \/ AcqRemove(p) \/ AcqAgain(p)
    \/ RelRead(p) \/ RelRemove(p)
    \/ RaList(p) \/ RaLoop(p) \/ RaNext(p)
    \/ ChkList(p)
    \/ CoaCheck(p) \/ CoaAcquire(p) \/ CoaRead(p)

StoreNext ==
    \/ Tick
    \/ \E p \in SeqProcs : Alone(p) /\ (StoreStart(p) \/ StoreStep(p))

StoreSpec == StoreInit /\ [][StoreNext]_vars

\* pattern resolution: one check, on an empty store, of any file under any
\* ordered pattern list, malformed patterns included
BadClass == <<"d", "/", "[">>
PatternSet == AllResources \cup {BadClass}
MaxPatterns == 2

ProtectedLists ==
    UNION {[1 .. n -> PatternSet] : n \in 0 .. MaxPatterns}

PatInit ==
    /\ now = 0
    /\ locks = [k \in Keys |-> NoFile]
    /\ agents = [a \in AgentIDs |-> NoFile]
    /\ pc = [p \in Procs |-> "idle"]
    /\ call = [p \in Procs |-> NoCall]
    /\ loc = [p \in Procs |-> NoLoc]
    /\ ret = [p \in Procs |-> NoRet]
    /\ ops = MaxOps - 1
    /\ crashes = 0
    /\ config = Protected
    /\ cache = NoFile

PatStart(p) ==
    \/ \E f \in Files, a \in AgentsOf(p), pl \in ProtectedLists :
          Check(p, f, a, pl)
    \/ \E f \in Files, a \in AgentsOf(p), pl \in ProtectedLists :
          CheckOrAcquire(p, f, a, pl)

PatStep(p) ==
    \/ ChkList(p)
    \/ CoaCheck(p) \/ CoaAcquire(p) \/ CoaRead(p)
    \/ AcqOpen(p) \/ AcqWrite(p)

PatNext ==
    \/ Tick
    \/ \E p \in SeqProcs : Alone(p) /\ (PatStart(p) \/ PatStep(p))

PatSpec == PatInit /\ [][PatNext]_vars

\* Acquire calls only, with kills; a process that is not killed keeps running
\* and the clock keeps advancing
AcquireStep(p) ==
    \/ AcqOpen(p) \/ AcqWrite(p) \/ AcqRead(p) \/ AcqStale(p)
    \/ AcqRemove(p) \/ AcqAgain(p)

LiveNext ==
    \/ Tick
    \/ \E p \in Procs :
          \/ \E r \in Resources, a \in AgentsOf(p), t \in TTLArgs :
                Acquire(p, r, a, t)
          \/ AcquireStep(p)
          \/ Crash(p)

LiveSpec ==
    /\ Init
    /\ [][LiveNext]_vars
    /\ WF_vars(Tick)
    /\ \A p \in Procs : WF_vars(AcquireStep(p))

----------------------------------------------------------------------------
(* Vocabulary of the properties *)

KeyOf(p) == lockPath(call[p].resource)

Finished(op) == {p \in Procs : pc[p] = "done" /\ call[p].op = op}

Succeeded(S) == {p \in S : ret[p].err = "ok"}

\* every process has run at most one operation, to its end, and nobody was
\* killed: the finished calls are all the calls there have been
OneCallEach ==
    /\ crashes = 0
    /\ \A p \in Procs : pc[p] \in {"idle", "done"}
    /\ ops = Cardinality({p \in Procs : pc[p] = "done"})

\* so little time has passed since the start that no lock can be stale
NothingExpires ==
    \A d \in {DefaultTTL, StaleThreshold} \cup (TTLArgs \ {0}) : now <= d

TTLElapsed(lock) == now - lock.acquired_at > lock.ttl_seconds

\* the longest TTL an acquirer can have chosen
TTLCeiling == CHOOSE d \in {DefaultTTL} \cup TTLArgs :
                 \A e \in {DefaultTTL} \cup TTLArgs : e <= d

\* the owner's heartbeat record was refreshed within the last stale_threshold
\* seconds
HeartbeatFresh(a) ==
    /\ agents[a].kind = "rec"
    /\ now - agents[a].last_heartbeat <= StaleThreshold

\* process p takes the step that evaluates m.IsStale on lock e
Judges(p, e) ==
    \/ /\ pc[p] = "acq_stale"
       /\ pc'[p] # "acq_stale"
       /\ e = loc[p].existing
    \/ /\ pc[p] = "cs_check"
       /\ loc[p].todo # <<>>
       /\ loc'[p] # loc[p] \/ pc'[p] # pc[p]
       /\ e = Head(loc[p].todo)

\* ... and what the step then does with a lock found stale / found alive
Reclaims(p) == loc'[p].stale /\ pc'[p] \in {"acq_remove", "cs_remove"}

Spares(p, e) ==
    /\ ~loc'[p].stale
    /\ locks' = locks
    /\ pc[p] = "acq_stale" => pc'[p] = "done" /\ ret'[p] = Conflict(e.agent_id)
    /\ pc[p] = "cs_check" => pc'[p] = "cs_check" /\ loc'[p].cleaned = loc[p].cleaned

\* nobody but p will do anything any more
OnlyOneRuns(p) ==
    /\ ops = MaxOps
    /\ crashes = MaxCrashes
    /\ \A q \in Procs \ {p} : pc[q] \in {"idle", "done", "crashed"}

----------------------------------------------------------------------------
(* C1: on a resource with no lock record, when the calls there have been are
   N >= 1 Acquire calls by distinct owners, interleaved in any way and with no
   lock expiring meanwhile, exactly one returns success and the others return
   a conflict error. *)
C1_MutualExclusion ==
    LET S == Finished("Acquire") IN
    (OneCallEach /\ S # {} /\ ops = Cardinality(S) /\ NothingExpires)
        => /\ Cardinality(Succeeded(S)) = 1
           /\ \A p \in S : ret[p].err \in {"ok", "conflict"}

\* the part of C1 that the exclusive create does give: one winner, the others fail
C1_OneWinner ==
    LET S == Finished("Acquire") IN
    (OneCallEach /\ S # {} /\ ops = Cardinality(S) /\ NothingExpires)
        => Cardinality(Succeeded(S)) = 1

(* C2: when the resource holds a stale lock and two or more distinct owners
   call Acquire on it concurrently (all of them found that lock), at most one
   of them returns success, and once all have returned the record in the store
   names the successful owner. *)
C2_SafeReclaim ==
    \A h \in Finished("Acquire") :
        LET C == {p \in Finished("Acquire") \ {h} :
                     loc[p].existing = loc[h].lock} IN
        (/\ OneCallEach
         /\ ops = Cardinality(Finished("Acquire"))
         /\ ret[h].err = "ok"
         /\ IsStale(loc[h].lock, now, agents)
         /\ Cardinality(C) >= 2)
            => /\ Cardinality(Succeeded(C)) <= 1
               /\ \A p \in Succeeded(C) :
                     /\ locks[KeyOf(p)].kind = "rec"
                     /\ locks[KeyOf(p)].agent_id = call[p].agentID

(* C3: neither the reclaim step of Acquire nor CleanStale ever deletes a lock
   record that is not stale at the moment it is deleted. *)
C3_ReclaimOnlyStale ==
    [][\A p \in Procs, k \in Keys :
          (/\ pc[p] \in {"acq_remove", "cs_remove"}
           /\ pc'[p] # pc[p]
           /\ locks[k].kind = "rec"
           /\ locks'[k].kind = "none")
              => IsStale(locks[k], now, agents)]_vars

(* C4: the record that Release(r, X) deletes is owned by X at the moment of
   the deletion. *)
C4_ReleaseDeletesOwn ==
    [][\A p \in Procs, k \in Keys :
          (/\ pc[p] = "rel_remove"
           /\ pc'[p] = "done"
           /\ locks[k].kind = "rec"
           /\ locks'[k].kind = "none")
              => locks[k].agent_id = call[p].agentID]_vars

(* C5: in every reachable state every lock file and every agent file that
   exists holds a complete, parseable record. *)
C5_NoPartialRecord ==
    /\ \A k \in Keys : locks[k].kind \in {"none", "rec"}
    /\ \A a \in AgentIDs : agents[a].kind \in {"none", "rec"}

(* C6: blocking is bounded by the TTL ceiling.  When what is left at the
   resource (a record of another owner, or the file of a process killed inside
   Acquire) is older than any TTL, its holder does nothing more and the clock
   advances, an Acquire by a different owner eventually succeeds. *)
C6_BlockingBounded ==
    \A p \in Procs :
        (/\ pc[p] = "acq_open"
         /\ OnlyOneRuns(p)
         /\ LET f == locks[KeyOf(p)] IN
               \/ f.kind = "rec" /\ f.agent_id # call[p].agentID
                                /\ TTLElapsed(f)
               \/ f.kind = "empty" /\ now - f.mtime > TTLCeiling)
        ~> (pc[p] = "done" /\ ret[p].err = "ok")

(* C7: a lock whose owner has no heartbeat record is judged stale once
   now - acquired_at exceeds ttl_seconds, and an Acquire by a different owner
   that finds it, with no concurrent operations, succeeds and leaves a record
   naming the new owner with a newer acquired_at. *)
C7_TTLExpiryReclaim ==
    /\ [][\A p \in Procs :
            LET e == loc[p].existing IN
            /\ (/\ pc[p] = "acq_stale" /\ pc'[p] # "acq_stale"
                /\ agents[e.agent_id].kind = "none"
                /\ TTLElapsed(e))
                   => Reclaims(p)
            /\ (/\ pc[p] = "acq_write" /\ pc'[p] = "done"
                /\ loc[p].stale
                /\ e.agent_id # call[p].agentID
                /\ agents[e.agent_id].kind = "none")
                   => /\ ret'[p].err = "ok"
                      /\ locks'[KeyOf(p)].kind = "rec"
                      /\ locks'[KeyOf(p)].agent_id = call[p].agentID
                      /\ locks'[KeyOf(p)].acquired_at > e.acquired_at]_vars
    /\ [](\A p \in Procs :
            (pc[p] = "done" /\ call[p].op = "Acquire" /\ loc[p].stale)
                => ret[p].err = "ok")

C7_Witness ==
    \E p \in Procs :
        LET e == loc[p].existing IN
        /\ pc[p] = "done" /\ call[p].op = "Acquire" /\ ret[p].err = "ok"
        /\ loc[p].stale
        /\ e.agent_id # call[p].agentID
        /\ agents[e.agent_id].kind = "none"
        /\ loc[p].lock.acquired_at - e.acquired_at > e.ttl_seconds
        /\ locks[KeyOf(p)] = loc[p].lock

(* C8 as stated: a lock whose TTL has elapsed but whose owner's heartbeat was
   refreshed within the last stale_threshold seconds is not judged stale:
   Acquire by another owner fails with a conflict and CleanStale leaves the
   record in place. *)
C8_HeartbeatOutlivesTTL ==
    [][\A p \in Procs, k \in Keys :
          LET e == locks[k] IN
          (e.kind = "rec" /\ Judges(p, e) /\ TTLElapsed(e)
              /\ HeartbeatFresh(e.agent_id))
                 => Spares(p, e)]_vars

(* C8 amended: the heartbeat keeps a lock alive only within its TTL.  A lock
   whose TTL has not elapsed and whose owner's heartbeat was refreshed within
   the last stale_threshold seconds is not judged stale, whatever its age
   against stale_threshold: Acquire by another owner fails with a conflict
   naming the owner and CleanStale leaves the record in place.  Once the TTL
   has elapsed the lock is judged stale whatever the heartbeat. *)
C8_HeartbeatWithinTTL ==
    [][\A p \in Procs, k \in Keys :
          LET e == locks[k] IN
          /\ (e.kind = "rec" /\ Judges(p, e) /\ ~TTLElapsed(e)
                 /\ HeartbeatFresh(e.agent_id))
                    => Spares(p, e)
          /\ (e.kind = "rec" /\ Judges(p, e) /\ TTLElapsed(e))
                    => Reclaims(p)]_vars

C8_Witness ==
    \E p \in Procs :
        LET e == locks[KeyOf(p)] IN
        /\ pc[p] = "done" /\ call[p].op = "Acquire"
        /\ e.kind = "rec" /\ e = loc[p].existing
        /\ ret[p] = Conflict(e.agent_id)
        /\ e.agent_id # call[p].agentID
        /\ now - e.acquired_at > StaleThreshold
        /\ ~TTLElapsed(e)
        /\ HeartbeatFresh(e.agent_id)

(* C9 as stated: for every lock age, ttl, presence of a heartbeat record and
   heartbeat age, the staleness decision is: stale if age > ttl; otherwise,
   with no heartbeat record, stale iff age > stale_threshold; with a record,
   stale iff now - last_heartbeat > stale_threshold. *)
StaleByRecord(e) ==
    IF now - e.acquired_at > e.ttl_seconds THEN TRUE
    ELSE IF agents[e.agent_id].kind # "rec"
         THEN now - e.acquired_at > StaleThreshold
         ELSE now - agents[e.agent_id].last_heartbeat > StaleThreshold

C9_ThreeStepByRecord ==
    [][\A p \in Procs :
          LET e == IF pc[p] = "cs_check" /\ loc[p].todo # <<>>
                   THEN Head(loc[p].todo) ELSE loc[p].existing IN
          Judges(p, e) => (loc'[p].stale <=> StaleByRecord(e))]_vars

(* C9 amended: the same three steps, with the heartbeat read off the agent
   file itself: a heartbeat exists iff the file exists, and its age is
   now minus the file's modification time (the last_heartbeat field inside the
   record is not read). *)
StaleByFile(e) ==
    \/ now - e.acquired_at > e.ttl_seconds
    \/ /\ agents[e.agent_id].kind = "none"
       /\ now - e.acquired_at > StaleThreshold
    \/ /\ agents[e.agent_id].kind # "none"
       /\ now - agents[e.agent_id].mtime > StaleThreshold

C9_ThreeStepByFile ==
    [][\A p \in Procs :
          LET e == IF pc[p] = "cs_check" /\ loc[p].todo # <<>>
                   THEN Head(loc[p].todo) ELSE loc[p].existing IN
          Judges(p, e) => (loc'[p].stale <=> StaleByFile(e))]_vars

\* the third step decides: within the TTL, heartbeat file present and too old
C9_Witness ==
    \E p \in Procs :
        LET e == loc[p].existing IN
        /\ pc[p] = "acq_remove" /\ loc[p].stale
        /\ ~TTLElapsed(e)
        /\ agents[e.agent_id].kind = "rec"
        /\ now - agents[e.agent_id].mtime > StaleThreshold

(* C10: when the lock on r is owned by A, Release(r, B) with B # A fails with
   an ownership error and leaves the lock store as it was. *)
C10_OwnershipGuard ==
    [][\A p \in Procs :
          LET e == locks[KeyOf(p)] IN
          (/\ pc[p] = "rel_read" /\ pc'[p] # "rel_read"
           /\ e.kind = "rec"
           /\ e.agent_id # call[p].agentID)
              => /\ pc'[p] = "done"
                 /\ ret'[p].err = "ownership"
                 /\ ret'[p].owner = e.agent_id
                 /\ locks' = locks]_vars

C10_Witness ==
    \E p \in Procs :
        LET e == locks[KeyOf(p)] IN
        /\ pc[p] = "done" /\ call[p].op = "Release"
        /\ ret[p].err = "ownership"
        /\ e.kind = "rec"
        /\ e.agent_id = ret[p].owner
        /\ e.agent_id # call[p].agentID

\* the stores that CheckOrAcquire calls alone build up from the empty store,
\* one call at a time
CoaStep(p) ==
    \/ CoaCheck(p) \/ CoaAcquire(p) \/ CoaRead(p)
    \/ AcqOpen(p) \/ AcqWrite(p)

CoaNext ==
    \/ Tick
    \/ \E p \in SeqProcs :
          /\ Alone(p)
          /\ \/ \E f \in Files, a \in AgentsOf(p) :
                   CheckOrAcquire(p, f, a, Protected)
             \/ CoaStep(p)

CoaSpec == Init /\ [][CoaNext]_vars

\* the heartbeat daemon of one agent, interrupted at any moment, next to the
\* single heartbeats and the deregistration of both agents; the goroutine and
\* the daemon's heartbeat are scheduled again and again, and select, which
\* picks at random among the ready cases, picks the closed stop channel in
\* the end
Daemons == {"A"}

DaemonInit ==
    /\ now = 0
    /\ locks = [k \in Keys |-> NoFile]
    /\ agents \in [AgentIDs -> {NoFile} \cup
                                {Agent(a, 0, 0, 0) : a \in SeqProcs}]
    /\ \A a \in AgentIDs :
          agents[a].kind = "rec" => agents[a].agent_id = a
    /\ pc = [p \in Procs |-> "idle"]
    /\ call = [p \in Procs |-> NoCall]
    /\ loc = [p \in Procs |-> NoLoc]
    /\ ret = [p \in Procs |-> NoRet]
    /\ ops = MaxOps - 2
    /\ crashes = 0
    /\ config = Protected
    /\ cache = NoFile

DaemonHeartbeat(p) == HbRead(p) \/ SaveOpen(p) \/ SaveWrite(p)

DaemonNext ==
    \/ Tick
    \/ \E p \in Daemons :
          \/ \E a \in AgentsOf(p) : Daemon(p, a)
          \/ Interrupt(p) \/ SigClose(p)
          \/ HbdTick(p) \/ HbdStop(p)
    \/ \E p \in SeqProcs :
          \/ p \notin Daemons /\ \E a \in AgentsOf(p) : Heartbeat(p, a)
          \/ p \notin Daemons /\ \E a \in AgentsOf(p) : Deregister(p, a)
          \/ DaemonHeartbeat(p) \/ DeregRemove(p)

DaemonSpec ==
    /\ DaemonInit
    /\ [][DaemonNext]_vars
    /\ \A p \in Daemons :
          /\ WF_vars(SigClose(p))
          /\ WF_vars(DaemonHeartbeat(p))
          /\ SF_vars(HbdStop(p))

\* ReleaseAll while another agent acquires, reclaiming what has gone stale
RaStart(p) ==
    \/ \E a \in AgentsOf(p) : ReleaseAll(p, a)
    \/ \E r \in AllResources, a \in AgentsOf(p) : Acquire(p, r, a, 0)

RaStep(p) ==
    \/ RaList(p) \/ RaLoop(p) \/ RaNext(p)
    \/ RelRead(p) \/ RelRemove(p)
    \/ AcqOpen(p) \/ AcqWrite(p) \/ AcqRead(p) \/ AcqStale(p)
    \/ AcqRemove(p) \/ AcqAgain(p)

RaConcurrentNext ==
    \/ Tick
    \/ \E p \in SeqProcs : RaStart(p) \/ RaStep(p)

RaSpec == StoreInit /\ [][RaConcurrentNext]_vars

\* the maintenance commands and the heartbeat, one at a time, on every store
\* and registry that earlier commands of two agents can have left behind, a
\* file left empty by a killed Acquire included
SweepInit ==
    /\ now = 0
    /\ locks \in [Keys -> {NoFile, EmptyFile("C", 0)} \cup
                           {Lock(r, a, 0, DefaultTTL) :
                               r \in AllResources, a \in SeqProcs}]
    /\ \A r \in AllResources :
          locks[lockPath(r)].kind = "rec" => locks[lockPath(r)].resource = r
    /\ agents \in [AgentIDs -> {NoFile} \cup
                                {Agent(a, 0, 0, 0) : a \in SeqProcs} \cup
                                {[Agent("A", 0, 0, 0) EXCEPT
                                     !.name = "n", !.current_task = "t",
                                     !.locks_held = <<ResDB>>]}]
    /\ \A a \in AgentIDs :
          agents[a].kind = "rec" => agents[a].agent_id = a
    /\ pc = [p \in Procs |-> "idle"]
    /\ call = [p \in Procs |-> NoCall]
    /\ loc = [p \in Procs |-> NoLoc]
    /\ ret = [p \in Procs |-> NoRet]
    /\ ops = MaxOps - 2
    /\ crashes = 0
    /\ config = Protected
    /\ cache = NoFile

SweepStart(p) ==
    \/ CleanStale(p)
    \/ AgentCleanStale(p)
    \/ \E a \in AgentsOf(p) : Heartbeat(p, a)

SweepStep(p) ==
    \/ CsList(p) \/ CsCheck(p) \/ CsRemove(p)
    \/ AcsList(p) \/ AcsCheck(p) \/ AcsRemove(p)
    \/ HbRead(p) \/ SaveOpen(p) \/ SaveWrite(p)

SweepNext ==
    \/ Tick
    \/ \E p \in SeqProcs : Alone(p) /\ (SweepStart(p) \/ SweepStep(p))

SweepSpec == SweepInit /\ [][SweepNext]_vars

\* a waiter next to the owner of the lock, who acquires, sends heartbeats and
\* releases; time goes on and every running process is scheduled again
Waiters == {"B"}

Owners == {"A"}

WaitStep(p) ==
    \/ WaitRead(p) \/ WaitStale(p) \/ WaitTimeout(p) \/ WaitSleep(p)

OwnerStep(p) ==
    \/ AcqOpen(p) \/ AcqWrite(p) \/ AcqRead(p) \/ AcqStale(p)
    \/ AcqRemove(p) \/ AcqAgain(p)
    \/ RelRead(p) \/ RelRemove(p)
    \/ HbRead(p) \/ SaveOpen(p) \/ SaveWrite(p)

WaitNext ==
    \/ Tick
    \/ \E p \in Waiters :
          \/ \E r \in Resources, t \in WaitTimeouts : Wait(p, r, t)
          \/ WaitStep(p)
    \/ \E p \in Owners :
          \/ \E r \in Resources, a \in AgentsOf(p) : Acquire(p, r, a, 0)
          \/ \E r \in Resources, a \in AgentsOf(p) : Release(p, r, a)
          \/ \E a \in AgentsOf(p) : Heartbeat(p, a)
          \/ OwnerStep(p)

WaitSpec ==
    /\ Init
    /\ [][WaitNext]_vars
    /\ WF_vars(Tick)
    /\ \A p \in Waiters : WF_vars(WaitStep(p))

\* check --acquire of one agent while the other agent acquires, releases,
\* checks or collects garbage, in every interleaving, on every store that
\* earlier Acquire calls can have left behind
RaceFiles == {FileDA, FileDB}

RaceStart(p) ==
    \/ \E f \in RaceFiles, a \in AgentsOf(p) :
          CheckOrAcquire(p, f, a, Protected)
    \/ \E r \in AllResources, a \in AgentsOf(p) : Acquire(p, r, a, 0)
    \/ \E r \in AllResources, a \in AgentsOf(p) : Release(p, r, a)
    \/ CleanStale(p)

RaceStep(p) ==
    \/ CoaCheck(p) \/ CoaAcquire(p) \/ CoaRead(p)
    \/ AcqOpen(p) \/ AcqWrite(p) \/ AcqRead(p) \/ AcqStale(p)
    \/ AcqRemove(p) \/ AcqAgain(p)
    \/ RelRead(p) \/ RelRemove(p)
    \/ CsList(p) \/ CsCheck(p) \/ CsRemove(p)

RaceNext ==
    \/ Tick
    \/ \E p \in SeqProcs : RaceStart(p) \/ RaceStep(p)

RaceSpec == StoreInit /\ [][RaceNext]_vars

\* the check command of two agents, with and without --acquire, in every
\* interleaving, while config.yaml is edited between and during the runs
Configs == {Protected, <<ResGA>>}
CheckFiles == {FileDB, FileE}
MaxArgs == 2
FileLists == UNION {[1 .. n -> CheckFiles] : n \in 1 .. MaxArgs}

EditConfig ==
    /\ \E c \in Configs \ {config} : config' = c
    /\ UNCHANGED <<now, locks, agents, pc, call, loc, ret, ops, crashes, cache>>

CheckStep(p) ==
    \/ RcLoad(p) \/ RcFile(p) \/ RcResult(p)
    \/ RcSave(p) \/ RcWrite(p) \/ RcExit(p)
    \/ ChkList(p)
    \/ CoaCheck(p) \/ CoaAcquire(p) \/ CoaRead(p)
    \/ AcqOpen(p) \/ AcqWrite(p) \/ AcqRead(p) \/ AcqStale(p)
    \/ AcqRemove(p) \/ AcqAgain(p)

CheckNext ==
    \/ Tick
    \/ EditConfig
    \/ \E p \in SeqProcs :
          \/ \E fs \in FileLists, a \in AgentsOf(p), acq \in BOOLEAN :
                RunCheck(p, fs, a, acq)
          \/ CheckStep(p)

\* no lock, no agent, no cache file, and two runs to come
CheckInit ==
    /\ now = 0
    /\ locks = [k \in Keys |-> NoFile]
    /\ agents = [a \in AgentIDs |-> NoFile]
    /\ pc = [p \in Procs |-> "idle"]
    /\ call = [p \in Procs |-> NoCall]
    /\ loc = [p \in Procs |-> NoLoc]
    /\ ret = [p \in Procs |-> NoRet]
    /\ ops = MaxOps - 2
    /\ crashes = 0
    /\ config \in Configs
    /\ cache = NoFile

CheckSpec == CheckInit /\ [][CheckNext]_vars

\* lock and unlock, one at a time, on two resources that lockPath sends to
\* one file name: d/* and d-_
ResDU == <<"d", "-", "_">>
Colliding == {ResDB, ResDU}

CollideNext ==
    \/ Tick
    \/ \E p \in SeqProcs :
          /\ Alone(p)
          /\ \/ \E r \in Colliding, a \in AgentsOf(p) : Acquire(p, r, a, 0)
             \/ \E r \in Colliding, a \in AgentsOf(p) : Release(p, r, a)
             \/ AcquireStep(p)
             \/ RelRead(p) \/ RelRemove(p)

CollideSpec == Init /\ [][CollideNext]_vars

\* the registry commands of two processes that carry the same agent id (the
\* heartbeat of a session next to the session's own commands), in every
\* interleaving
RegIDs == {"A"}
Tasks == {"t", "u"}
HeldLists == {<<ResDB>>}

RegistryStart(p) ==
    \/ \E a \in RegIDs : Register(p, a, "n")
    \/ \E a \in RegIDs : Heartbeat(p, a)
    \/ \E a \in RegIDs, t \in Tasks : UpdateTask(p, a, t)
    \/ \E a \in RegIDs, ls \in HeldLists : UpdateLocks(p, a, ls)
    \/ \E a \in RegIDs : Deregister(p, a)

RegistryStep(p) ==
    \/ HbRead(p) \/ UtRead(p) \/ UlRead(p)
    \/ SaveOpen(p) \/ SaveWrite(p)
    \/ DeregRemove(p)

RegistryNext ==
    \/ Tick
    \/ \E p \in SeqProcs : RegistryStart(p) \/ RegistryStep(p)

RegistrySpec == Init /\ [][RegistryNext]_vars

\* the commands of the registry and of the lock manager side by side, one at
\* a time, on one file and one resource
FrameStart(p) ==
    \/ \E a \in AgentsOf(p) : Register(p, a, "n")
    \/ \E a \in AgentsOf(p) : Heartbeat(p, a)
    \/ \E a \in AgentsOf(p) : UpdateTask(p, a, "t")
    \/ \E a \in AgentsOf(p), ls \in HeldLists : UpdateLocks(p, a, ls)
    \/ \E a \in AgentsOf(p) : Deregister(p, a)
    \/ AgentCleanStale(p)
    \/ \E r \in Resources, a \in AgentsOf(p) : Acquire(p, r, a, 0)
    \/ \E r \in Resources, a \in AgentsOf(p) : Release(p, r, a)
    \/ \E a \in AgentsOf(p) : ReleaseAll(p, a)
    \/ CleanStale(p)
    \/ \E f \in {FileDB}, a \in AgentsOf(p) : Check(p, f, a, Protected)
    \/ \E f \in {FileDB}, a \in AgentsOf(p) :
          CheckOrAcquire(p, f, a, Protected)

FrameStep(p) ==
    \/ RegistryStep(p)
    \/ AcsList(p) \/ AcsCheck(p) \/ AcsRemove(p)
    \/ AcquireStep(p)
    \/ RelRead(p) \/ RelRemove(p)
    \/ RaList(p) \/ RaLoop(p) \/ RaNext(p)
    \/ CsList(p) \/ CsCheck(p) \/ CsRemove(p)
    \/ ChkList(p)
    \/ CoaCheck(p) \/ CoaAcquire(p) \/ CoaRead(p)

FrameNext ==
    \/ Tick
    \/ \E p \in SeqProcs : Alone(p) /\ (FrameStart(p) \/ FrameStep(p))

FrameSpec == Init /\ [][FrameNext]_vars

----------------------------------------------------------------------------
\* process p takes a step of its own
Moves(p) == pc'[p] # pc[p] \/ loc'[p] # loc[p] \/ call'[p] # call[p]

\* nobody but p has run anything
OthersIdle(p) == \A q \in Procs \ {p} : pc[q] = "idle"

(* C11: Release(r, owner) on a resource with no lock record returns success
   and changes nothing, for any owner and however often it is repeated; a
   Release that returns success leaves no record, so the next one succeeds
   too. *)
C11_IdempotentRelease ==
    [][\A p \in Procs :
          (call[p].op = "Release" /\ Moves(p)) =>
             /\ (pc[p] = "rel_read" /\ locks[KeyOf(p)].kind = "none")
                   => /\ pc'[p] = "done"
                      /\ ret'[p].err = "ok"
                      /\ locks' = locks /\ agents' = agents
             /\ (pc'[p] = "done" /\ ret'[p].err = "ok")
                   => locks'[KeyOf(p)].kind = "none"]_vars

\* the second of two Release calls in a row has succeeded on the free resource
C11_Witness ==
    \E p \in Procs :
        /\ pc[p] = "done" /\ call[p].op = "Release" /\ ret[p].err = "ok"
        /\ loc[p].existing.kind = "none"
        /\ locks[KeyOf(p)].kind = "none"
        /\ OthersIdle(p) /\ ops = MaxOps

(* C12: Release(r, A) on the record a successful Acquire(r, A) left removes
   that record and nothing else, and an Acquire(r, B) by any owner on the
   resource then free succeeds and leaves a record naming B, every other
   record untouched. *)
C12_RoundTrip ==
    [][\A p \in Procs :
          LET k == KeyOf(p) IN
          /\ (/\ call[p].op = "Release" /\ pc[p] = "rel_remove" /\ Moves(p)
              /\ locks[k].kind = "rec"
              /\ locks[k].agent_id = call[p].agentID)
                 => /\ pc'[p] = "done" /\ ret'[p].err = "ok"
                    /\ locks' = [locks EXCEPT ![k] = NoFile]
          /\ (/\ call[p].op = "Acquire" /\ pc[p] = "acq_open" /\ Moves(p)
              /\ locks[k].kind = "none")
                 => /\ pc'[p] = "acq_write"
                    /\ \A j \in Keys \ {k} : locks'[j] = locks[j]
          /\ (call[p].op = "Acquire" /\ pc[p] = "acq_write" /\ Moves(p))
                 => /\ pc'[p] = "done" /\ ret'[p].err = "ok"
                    /\ locks' = [locks EXCEPT ![k] = loc[p].lock]
                    /\ locks'[k].agent_id = call[p].agentID]_vars

\* A has released its record, B has then found the resource free and holds it
C12_Witness ==
    \E p, q \in Procs :
        /\ p # q
        /\ pc[p] = "done" /\ call[p].op = "Release" /\ ret[p].err = "ok"
        /\ loc[p].existing.kind = "rec"
        /\ pc[q] = "done" /\ call[q].op = "Acquire" /\ ret[q].err = "ok"
        /\ call[q].resource = call[p].resource
        /\ loc[q].existing.kind = "none"
        /\ locks[KeyOf(q)] = loc[q].lock
        /\ \E j \in Keys \ {KeyOf(q)} : locks[j].kind = "rec"

(* C13: ReleaseAll(A) removes exactly the records whose owner is A: every
   record it deletes is owned by A, every record of another agent stays as it
   is, and when it returns no record of A is left. *)
C13_ReleaseAllScoping ==
    [][\A p \in Procs :
          (call[p].op = "ReleaseAll" /\ Moves(p)) =>
             /\ \A k \in Keys :
                   locks'[k] # locks[k]
                      => /\ locks[k].kind = "rec"
                         /\ locks[k].agent_id = call[p].agentID
                         /\ locks'[k] = NoFile
             /\ pc'[p] = "done"
                   => /\ ret'[p].err = "ok"
                      /\ \A k \in Keys :
                            locks'[k].kind = "rec"
                               => locks'[k].agent_id # call[p].agentID]_vars

\* one record of A is gone, another one is still to go, a record of B is there
C13_Witness ==
    \E p \in Procs :
        /\ call[p].op = "ReleaseAll" /\ pc[p] = "ra_next" /\ ret[p].err = "ok"
        /\ loc[p].existing.kind = "rec"
        /\ locks[lockPath(loc[p].existing.resource)].kind = "none"
        /\ \E i \in 2 .. Len(loc[p].todo) :
               /\ loc[p].todo[i].agent_id = call[p].agentID
               /\ locks[lockPath(loc[p].todo[i].resource)] = loc[p].todo[i]
        /\ \E k \in Keys :
               locks[k].kind = "rec" /\ locks[k].agent_id # call[p].agentID

\* the lock m.Check(filePath) would return to p on the store as it is
Covers(p) == Covering(List(locks), loc[p].matched, call[p].file)

\* p calls CheckOrAcquire again, with the arguments of the successful call it
\* has just returned from, and nobody else has run
Repeats(p) ==
    /\ pc[p] = "done" /\ call[p].op = "CheckOrAcquire" /\ ret[p].err = "ok"
    /\ loc[p].matched # <<>>
    /\ OthersIdle(p)
    /\ pc'[p] = "coa_check"
    /\ call'[p] = [call[p] EXCEPT !.resource = <<>>, !.ttl = 0]

\* a CheckOrAcquire call of p returns success on a protected file
Granted(p) ==
    /\ call[p].op = "CheckOrAcquire" /\ pc[p] # "done" /\ pc'[p] = "done"
    /\ ret'[p].err = "ok" /\ loc[p].matched # <<>>

(* C14: for a protected file, sequential CheckOrAcquire(file, A) calls by the
   same owner all succeed once one has, and return the same lock record, a
   record of A that covers the file (its resource is the matched pattern or
   a pattern that matches the file); the calls after the first create no
   lock and change nothing in the store. *)
C14_SelfIdempotent ==
    [][\A p \in Procs :
          /\ Granted(p)
                => /\ ret'[p].lock.kind = "rec"
                   /\ ret'[p].lock.agent_id = call[p].agentID
                   /\ ret'[p].lock = Covering(List(locks'), loc[p].matched,
                                              call[p].file)
          /\ Repeats(p) => Covers(p) = ret[p].lock
          /\ (/\ pc[p] = "coa_check" /\ Moves(p)
              /\ Covers(p).kind = "rec"
              /\ Covers(p).agent_id = call[p].agentID)
                 => /\ pc'[p] = "done" /\ ret'[p].err = "ok"
                    /\ ret'[p].lock = Covers(p)
                    /\ locks' = locks /\ agents' = agents]_vars

(* C14 as stated: moreover the lock returned is the lock for the matched
   pattern, so that the store holds exactly one lock for that pattern. *)
C14_OneLockForPattern ==
    [][\A p \in Procs :
          Granted(p)
             => /\ locks'[lockPath(loc[p].matched)] = ret'[p].lock
                /\ ret'[p].lock.resource = loc[p].matched]_vars

\* the second of two calls of p in a row has returned the lock its first made
C14_Witness ==
    \E p \in Procs :
        /\ pc[p] = "done" /\ call[p].op = "CheckOrAcquire"
        /\ ret[p].err = "ok" /\ loc[p].matched # <<>>
        /\ loc[p].lock = NoFile
        /\ ret[p].lock.kind = "rec"
        /\ ret[p].lock.agent_id = call[p].agentID
        /\ ret[p].lock.acquired_at > 0 /\ now > ret[p].lock.acquired_at
        /\ ret[p].lock = Covers(p)
        /\ OthersIdle(p) /\ ops = MaxOps

(* C15: when the lock for a file's first matching pattern is held by A,
   CheckOrAcquire(file, B) with B # A fails with a conflict naming A, returns
   A's lock and leaves the store as it is; on an unprotected file it returns
   no lock and no error and changes nothing. *)
C15_BlocksOnOtherOwner ==
    [][\A p \in Procs :
          (pc[p] = "coa_check" /\ Moves(p)) =>
             LET held == IF loc[p].matched = <<>> THEN NoFile
                         ELSE locks[lockPath(loc[p].matched)] IN
             /\ (held.kind = "rec" /\ held.agent_id # call[p].agentID)
                    => /\ pc'[p] = "done"
                       /\ ret'[p].err = "conflict"
                       /\ ret'[p].owner = held.agent_id
                       /\ ret'[p].lock.kind = "rec"
                       /\ ret'[p].lock.agent_id = held.agent_id
                       /\ locks' = locks
             /\ loc[p].matched = <<>>
                    => /\ pc'[p] = "done"
                       /\ ret'[p] = Ret("ok")
                       /\ locks' = locks]_vars

\* the lock Check finds is the only lock that covers p's file, it belongs to
\* another agent and it is stale
OnlyStaleCover(p) ==
    /\ loc[p].matched # <<>>
    /\ Covers(p).kind = "rec"
    /\ Covers(p).agent_id # call[p].agentID
    /\ IsStale(Covers(p), now, agents)
    /\ \A k \in Keys :
          (/\ locks[k].kind = "rec"
           /\ \/ locks[k].resource = loc[p].matched
              \/ Match(locks[k].resource, call[p].file).matched)
             => locks[k] = Covers(p)

(* C16: when the only lock covering a protected file is stale and owned by
   another agent, Check does not report the file as blocked, and
   CheckOrAcquire by a different owner is not rejected by it but goes on to
   acquire the resource. *)
C16_StaleSkipped ==
    [][\A p \in Procs :
          /\ (pc[p] = "chk_list" /\ Moves(p) /\ OnlyStaleCover(p))
                => ret'[p].err # "blocked"
          /\ (pc[p] = "coa_check" /\ Moves(p) /\ OnlyStaleCover(p))
                => pc'[p] = "coa_acquire"]_vars

(* C18: within one Acquire call at most one record is deleted as stale and
   the exclusive creation is attempted at most twice: when the creation
   retried after a reclaim collides with a record too, the call returns a
   conflict and neither reclaims nor retries again, whatever the other
   processes do. *)
C18_SingleRetry ==
    [][\A p \in Procs :
          (pc[p] = "acq_stale" /\ loc[p].stale /\ pc'[p] # pc[p]
             /\ pc'[p] # "crashed")
             => pc'[p] = "done" /\ ret'[p].err = "conflict"]_vars

\* the record under key k stays in place, judged stale before the step and
\* not stale after it
Revived(k) ==
    /\ locks[k].kind = "rec"
    /\ locks'[k] = locks[k]
    /\ IsStale(locks[k], now, agents)
    /\ ~IsStale(locks[k], now', agents')

(* C20: a lock record is never rewritten in place, it only disappears; a
   record that is stale because its TTL has elapsed stays stale until it is
   deleted; a record that is stale by the heartbeat rule alone becomes
   non-stale again, without being deleted, only in a step that writes or
   removes its owner's heartbeat file while the TTL has not elapsed. *)
C20_StaleUntilHeartbeat ==
    [][\A k \in Keys :
          /\ (locks[k].kind = "rec" /\ locks'[k] # locks[k])
                => locks'[k] = NoFile
          /\ Revived(k)
                => /\ now' - locks[k].acquired_at <= locks[k].ttl_seconds
                   /\ agents'[locks[k].agent_id] # agents[locks[k].agent_id]
                   /\ now' = now]_vars

(* C20 as stated: a lock record that has been stale never becomes non-stale
   again without being deleted and created again, whatever lock and
   agent-registry operations run. *)
C20_StaleIsFinal ==
    [][\A k \in Keys : ~Revived(k)]_vars

\* a record two seconds old, stale while its owner had no heartbeat file, is
\* not stale now that the owner has registered
C20_Witness ==
    \E k \in Keys :
        /\ locks[k].kind = "rec"
        /\ now - locks[k].acquired_at > StaleThreshold
        /\ agents[locks[k].agent_id].kind = "rec"
        /\ agents[locks[k].agent_id].started_at = now
        /\ ~IsStale(locks[k], now, agents)

(* C19: a Wait with timeout > 0 ends; it ends with the timeout error, which
   names the owner of the record it has read, only at a check where the time
   elapsed since its start exceeds the timeout, never earlier, and at such a
   check it always does; it ends with success only
   when no record can be read or the record read is stale, so that against a
   lock that stays present and non-stale it ends with the timeout error; a
   Wait with timeout 0 never returns the timeout error. *)
C19_WaitTimeout ==
    /\ [][\A p \in Procs :
            (call[p].op = "Wait" /\ pc[p] # "done" /\ pc'[p] = "done") =>
               /\ ret'[p].err = "timeout"
                     => /\ call[p].timeout > 0
                        /\ now - loc[p].start > call[p].timeout
                        /\ loc[p].existing.kind = "rec"
                        /\ ret'[p].owner = loc[p].existing.agent_id
               /\ ret'[p].err # "timeout"
                     => /\ ret'[p].err = "ok"
                        /\ \/ ~Parseable(locks[KeyOf(p)])
                           \/ IsStale(loc[p].existing, now, agents)]_vars
    /\ [][\A p \in Procs :
            (/\ pc[p] = "wait_timeout" /\ pc'[p] # pc[p]
             /\ call[p].timeout > 0
             /\ now - loc[p].start > call[p].timeout)
               => pc'[p] = "done" /\ ret'[p].err = "timeout"]_vars
    /\ \A p \in Waiters :
          (call[p].op = "Wait" /\ call[p].timeout > 0) ~> pc[p] = "done"

\* the lock is there, not stale, and the Wait has ended with the timeout error
C19_Witness ==
    \E p \in Procs :
        /\ pc[p] = "done" /\ call[p].op = "Wait" /\ ret[p].err = "timeout"
        /\ locks[KeyOf(p)] = loc[p].existing
        /\ ~IsStale(locks[KeyOf(p)], now, agents)
        /\ now - loc[p].start > call[p].timeout

(* C17: for every file path and every ordered pattern list, the pattern that
   Check resolves and the resource that CheckOrAcquire locks are the same: the
   first pattern of the list, in configured order, that matches the file, and
   none if no pattern matches. *)
IsFirstMatch(protected, filePath, r) ==
    \/ /\ r = <<>>
       /\ \A i \in 1 .. Len(protected) :
             ~Glob(protected[i], 1, filePath, 1) \/ BadPattern(protected[i])
    \/ \E i \in 1 .. Len(protected) :
          /\ r = protected[i]
          /\ Glob(r, 1, filePath, 1) /\ ~BadPattern(r)
          /\ \A j \in 1 .. (i - 1) :
                ~Glob(protected[j], 1, filePath, 1) \/ BadPattern(protected[j])

C17_FirstMatchWins ==
    /\ [](\A p \in Procs :
            call[p].op \in {"Check", "CheckOrAcquire"}
               => IsFirstMatch(call[p].protected, call[p].file, loc[p].matched))
    /\ [][\A p \in Procs :
            (pc[p] = "coa_acquire" /\ Moves(p))
               => /\ call'[p].resource = loc[p].matched
                  /\ IsFirstMatch(call[p].protected, call[p].file,
                                  call'[p].resource)]_vars
    /\ [](\A p \in Procs :
            (call[p].op = "Check" /\ pc[p] = "done")
               => (loc[p].matched = <<>> => ret[p].lock = NoFile))

\* two different patterns match the file and the first of the list is locked
C17_Witness ==
    \E p \in Procs :
        /\ call[p].op = "CheckOrAcquire" /\ pc[p] = "done"
        /\ ret[p].err = "ok"
        /\ Len(call[p].protected) = 2
        /\ call[p].protected[1] # call[p].protected[2]
        /\ Glob(call[p].protected[1], 1, call[p].file, 1)
        /\ Glob(call[p].protected[2], 1, call[p].file, 1)
        /\ ret[p].lock.kind = "rec"
        /\ ret[p].lock.resource = call[p].protected[1]
        /\ locks[lockPath(call[p].protected[2])].kind = "none"

(* C21: every step that puts a lock record in the store, in an Acquire or in
   a CheckOrAcquire, puts there a record whose resource is one of the
   configured protected patterns. *)
C21_ResourceIsPattern ==
    [][\A k \in Keys :
          (locks'[k].kind = "rec" /\ locks'[k] # locks[k])
             => \E i \in 1 .. Len(Protected) :
                   locks'[k].resource = Protected[i]]_vars

\* ls is the content of the store: its complete records and nothing else,
\* each one once
ListsStore(ls) ==
    /\ \A i \in 1 .. Len(ls) :
          ls[i].kind = "rec" /\ ls[i] = locks[lockPath(ls[i].resource)]
    /\ \A k \in Keys :
          locks[k].kind = "rec" => \E i \in 1 .. Len(ls) : ls[i] = locks[k]
    /\ \A i, j \in 1 .. Len(ls) :
          ls[i].resource = ls[j].resource => i = j

(* C22: in every state each lock record lies under the key of its own
   resource, so that no two records have the same resource; List returns
   the complete records of the store, each one once and nothing else, the
   empty list on a store without records; and the command that calls List
   gets that list without an error. *)
C22_ListIsStore ==
    /\ [](\A k \in Keys :
            locks[k].kind = "rec" => lockPath(locks[k].resource) = k)
    /\ []ListsStore(List(locks))
    /\ []((\A k \in Keys : locks[k].kind # "rec") => List(locks) = <<>>)
    /\ [][\A p \in Procs :
            (pc[p] = "cs_list" /\ Moves(p))
               => /\ pc'[p] = "cs_check"
                  /\ ListsStore(loc'[p].todo)]_vars

\* CleanStale has listed two records and passed over a file that is empty
C22_Witness ==
    \E p \in Procs :
        /\ call[p].op = "CleanStale" /\ pc[p] = "cs_check"
        /\ Len(loc[p].todo) = 2
        /\ loc[p].todo = List(locks)
        /\ \E k \in Keys : locks[k].kind = "empty"

\* the fields of an agent record that a heartbeat has to leave alone
Identity(a) == <<a.agent_id, a.name, a.started_at, a.current_task,
                 a.locks_held>>

(* C23: a Heartbeat(id) that finds a record keeps its name, started_at,
   current_task and locks_held and sets last_heartbeat to the time of the
   call; one that finds no record builds the record of Register(id, ""):
   empty name, no task, no locks, started_at and last_heartbeat at the time
   of the call; and when Heartbeat returns, the record it has built is the
   record of id in the registry. *)
C23_HeartbeatSelfHealing ==
    [][\A p \in Procs :
          LET id == call[p].agentID IN
          /\ (pc[p] = "hb_read" /\ Moves(p))
                => /\ loc'[p].agent.last_heartbeat = now
                   /\ agents[id].kind = "rec"
                         => Identity(loc'[p].agent) = Identity(agents[id])
                   /\ agents[id].kind = "none"
                         => Identity(loc'[p].agent) = <<id, "", now, "", <<>>>>
          /\ (call[p].op = "Heartbeat" /\ pc[p] # "done" /\ pc'[p] = "done")
                => /\ ret'[p].err = "ok"
                   /\ agents'[id].kind = "rec"
                   /\ Identity(agents'[id]) = Identity(loc[p].agent)
                   /\ agents'[id].last_heartbeat = loc[p].agent.last_heartbeat
                   /\ agents'[id].last_heartbeat <= now]_vars

\* the heartbeat of a named agent with a task has gone through after a while
C23_Witness ==
    \E p \in Procs :
        /\ call[p].op = "Heartbeat" /\ pc[p] = "done" /\ ret[p].err = "ok"
        /\ agents[call[p].agentID].kind = "rec"
        /\ agents[call[p].agentID].name = "n"
        /\ agents[call[p].agentID].current_task = "t"
        /\ agents[call[p].agentID].started_at = 0
        /\ agents[call[p].agentID].last_heartbeat > 0

(* C24: in ReleaseAll a Release that fails is recorded and the loop goes on
   with the rest of the listing; every listed lock of the owner is handed to
   Release; the loop ends only when the listing is used up, and then with an
   error if and only if a Release has failed. *)
C24_ReleaseAllAggregates ==
    [][\A p \in Procs :
          (call[p].op = "ReleaseAll" /\ Moves(p)) =>
             /\ pc[p] = "ra_next"
                   => /\ pc'[p] = "ra_loop"
                      /\ loc'[p].todo = Tail(loc[p].todo)
                      /\ loc'[p].errs = IF ret[p].err = "ok" THEN loc[p].errs
                                        ELSE Append(loc[p].errs, ret[p].err)
             /\ (pc[p] = "ra_loop" /\ loc[p].todo # <<>>)
                   => IF Head(loc[p].todo).agent_id = call[p].agentID
                      THEN /\ pc'[p] = "rel_read"
                           /\ call'[p].resource = Head(loc[p].todo).resource
                      ELSE /\ pc'[p] = "ra_loop"
                           /\ loc'[p].todo = Tail(loc[p].todo)
             /\ pc[p] \in {"rel_read", "rel_remove"}
                   => /\ pc'[p] \in {"rel_remove", "ra_next"}
                      /\ loc'[p].todo = loc[p].todo
                      /\ loc'[p].errs = loc[p].errs
             /\ pc'[p] = "done"
                   => /\ pc[p] = "ra_loop" /\ loc[p].todo = <<>>
                      /\ ret'[p].err \in {"ok", "failed"}
                      /\ ret'[p].err = "failed" <=> loc[p].errs # <<>>]_vars

\* one Release of the batch has failed and a later one has removed its lock
C24_Witness ==
    \E p \in Procs :
        /\ call[p].op = "ReleaseAll" /\ pc[p] = "ra_next"
        /\ loc[p].errs # <<>>
        /\ ret[p].err = "ok"
        /\ loc[p].existing.kind = "rec"
        /\ loc[p].existing.resource = call[p].resource
        /\ locks[KeyOf(p)].kind = "none"

(* C25: once the interrupt signal has been delivered the heartbeat daemon
   returns in the end; the step by which it returns leaves the registry as
   it is, no step of the daemon removes the agent's record, and after its
   return the daemon writes nothing. *)
C25_DaemonShutdown ==
    /\ \A p \in Daemons :
          (call[p].op = "Daemon" /\ loc[p].sig # "none") ~> pc[p] = "done"
    /\ [][\A p \in Daemons :
            LET id == call[p].agentID IN
            /\ (call[p].op = "Daemon" /\ pc[p] # "done" /\ pc'[p] = "done")
                  => /\ loc[p].sig = "closed"
                     /\ agents' = agents
            /\ (call[p].op = "Daemon" /\ Moves(p))
                  => (agents[id].kind # "none" => agents'[id].kind # "none")
            /\ (call[p].op = "Daemon" /\ pc[p] = "done" /\ pc'[p] = "done")
                  => agents'[id] = agents[id]]_vars

\* the daemon has sent a heartbeat, was interrupted and has returned; the
\* record is there
C25_Witness ==
    \E p \in Daemons :
        /\ call[p].op = "Daemon" /\ pc[p] = "done"
        /\ loc[p].sig = "closed"
        /\ agents[call[p].agentID].kind = "rec"
        /\ agents[call[p].agentID].last_heartbeat > 0

(* C26: in every state reached by CheckOrAcquire calls, the non-stale locks
   whose pattern matches one and the same file are all owned by one agent. *)
C26_FileExclusion ==
    \A f \in Files : \A j, k \in Keys :
        (/\ locks[j].kind = "rec" /\ locks[k].kind = "rec"
         /\ ~IsStale(locks[j], now, agents) /\ ~IsStale(locks[k], now, agents)
         /\ Match(locks[j].resource, f).matched
         /\ Match(locks[k].resource, f).matched)
           => locks[j].agent_id = locks[k].agent_id

(* C27: Check(file) finds the file unprotected, and returns no lock, exactly
   when no configured pattern matches it; otherwise its pattern is the first
   one that matches, and it returns a lock exactly when some record of the
   store has that pattern as its resource or a resource that matches the
   file itself; the lock returned is such a record. *)
C27_CheckResult ==
    [][\A p \in Procs :
          (call[p].op = "Check" /\ pc[p] = "chk_list" /\ Moves(p)) =>
             LET f == call[p].file
                 pl == call[p].protected
                 covers(l) == /\ l.kind = "rec"
                              /\ \/ l.resource = loc[p].matched
                                 \/ Match(l.resource, f).matched
             IN
             /\ pc'[p] = "done" /\ locks' = locks
             /\ loc[p].matched = <<>>
                   <=> \A i \in 1 .. Len(pl) : ~Match(pl[i], f).matched
             /\ IsFirstMatch(pl, f, loc[p].matched)
             /\ loc[p].matched = <<>> => ret'[p].lock = NoFile
             /\ loc[p].matched # <<>>
                   => /\ ret'[p].lock.kind = "rec"
                            <=> \E k \in Keys : covers(locks[k])
                      /\ ret'[p].lock.kind = "rec"
                            => /\ covers(ret'[p].lock)
                               /\ \E k \in Keys : locks[k] = ret'[p].lock]_vars

\* Check has returned a lock on another pattern than the one it resolved
C27_Witness ==
    \E p \in Procs :
        /\ call[p].op = "Check" /\ pc[p] = "done"
        /\ loc[p].matched # <<>>
        /\ ret[p].lock.kind = "rec"
        /\ ret[p].lock.resource # loc[p].matched
        /\ locks[lockPath(loc[p].matched)].kind = "none"

(* C28: Wait returns success only from a read that found no lock file for
   the resource, or after the record it read was judged stale; while the
   file of a non-stale lock is there, written or still being created, it
   goes on polling. *)
C28_WaitOnlyWhenFree ==
    [][\A p \in Procs :
          (call[p].op = "Wait" /\ pc[p] # "done" /\ pc'[p] = "done"
             /\ ret'[p].err = "ok")
             => \/ pc[p] = "wait_read" /\ locks[KeyOf(p)].kind = "none"
                \/ /\ pc[p] = "wait_stale"
                   /\ IsStale(loc[p].existing, now, agents)]_vars

\* the resources in the list rs
Listed(rs) == {rs[i] : i \in 1 .. Len(rs)}

(* C29: run without concurrent operations, the lock CleanStale looks at every
   listed record in turn, whatever happened to the ones before; it deletes
   the record exactly when IsStale judges it stale and reports its resource
   exactly when it has deleted it; a record judged non-stale stays as it is;
   at the end the resources returned are those of the records deleted, all
   of them gone, and every listed record has been looked at. *)
C29_CleanStaleSweep ==
    [][\A p \in Procs :
          (call[p].op = "CleanStale" /\ Moves(p)) =>
             LET l == Head(loc[p].todo)
                 k == lockPath(l.resource) IN
             /\ (pc[p] = "cs_check" /\ loc[p].todo # <<>>)
                   => /\ locks' = locks
                      /\ loc'[p].cleaned = loc[p].cleaned
                      /\ IF IsStale(l, now, agents)
                         THEN pc'[p] = "cs_remove"
                              /\ loc'[p].todo = loc[p].todo
                         ELSE pc'[p] = "cs_check"
                              /\ loc'[p].todo = Tail(loc[p].todo)
             /\ pc[p] = "cs_remove"
                   => /\ pc'[p] = "cs_check"
                      /\ loc'[p].todo = Tail(loc[p].todo)
                      /\ locks[k] = l
                      /\ locks' = [locks EXCEPT ![k] = NoFile]
                      /\ loc'[p].cleaned = Append(loc[p].cleaned, l.resource)
             /\ pc[p] \notin {"cs_remove"} => locks' = locks
             /\ pc'[p] = "done"
                   => /\ pc[p] = "cs_check" /\ loc[p].todo = <<>>
                      /\ ret'[p].err = "ok"
                      /\ \A r \in Listed(loc[p].cleaned) :
                            locks'[lockPath(r)].kind = "none"
                      /\ \A i, j \in 1 .. Len(loc[p].cleaned) :
                            loc[p].cleaned[i] = loc[p].cleaned[j] => i = j]_vars

\* the sweep has removed a stale record and has left one that is not stale
C29_Witness ==
    \E p \in Procs :
        /\ call[p].op = "CleanStale" /\ pc[p] = "done"
        /\ Len(loc[p].cleaned) >= 1
        /\ \A r \in Listed(loc[p].cleaned) : locks[lockPath(r)].kind = "none"
        /\ \E k \in Keys :
               locks[k].kind = "rec" /\ ~IsStale(locks[k], now, agents)

(* C30: run without concurrent operations, the agent CleanStale looks at
   every listed agent in turn; it removes the record exactly when
   now - last_heartbeat >= stale_threshold at that moment and reports the
   agent's ID exactly when it has removed it; the record of an agent with
   now - last_heartbeat < stale_threshold stays as it is; at the end the IDs
   returned are those of the records removed, all of them gone. *)
C30_AgentCleanStale ==
    [][\A p \in Procs :
          (call[p].op = "AgentCleanStale" /\ Moves(p)) =>
             LET a == Head(loc[p].todo) IN
             /\ (pc[p] = "acs_check" /\ loc[p].todo # <<>>)
                   => /\ agents' = agents
                      /\ loc'[p].cleaned = loc[p].cleaned
                      /\ IF now - a.last_heartbeat < StaleThreshold
                         THEN pc'[p] = "acs_check"
                              /\ loc'[p].todo = Tail(loc[p].todo)
                         ELSE pc'[p] = "acs_remove"
                              /\ loc'[p].todo = loc[p].todo
             /\ pc[p] = "acs_remove"
                   => /\ pc'[p] = "acs_check"
                      /\ loc'[p].todo = Tail(loc[p].todo)
                      /\ agents[a.agent_id] = a
                      /\ now - a.last_heartbeat >= StaleThreshold
                      /\ agents' = [agents EXCEPT ![a.agent_id] = NoFile]
                      /\ loc'[p].cleaned = Append(loc[p].cleaned, a.agent_id)
             /\ pc[p] # "acs_remove" => agents' = agents
             /\ pc[p] = "acs_list"
                   => \A id \in AgentIDs :
                         agents[id].kind = "rec"
                            => \E i \in 1 .. Len(loc'[p].todo) :
                                  loc'[p].todo[i] = agents[id]
             /\ pc'[p] = "done"
                   => /\ pc[p] = "acs_check" /\ loc[p].todo = <<>>
                      /\ ret'[p].err = "ok"
                      /\ \A id \in Listed(loc[p].cleaned) :
                            agents'[id].kind = "none"
                      /\ \A i, j \in 1 .. Len(loc[p].cleaned) :
                            loc[p].cleaned[i] = loc[p].cleaned[j] => i = j]_vars

\* the sweep has removed a dead agent and has left one that is alive
C30_Witness ==
    \E p \in Procs :
        /\ call[p].op = "AgentCleanStale" /\ pc[p] = "done"
        /\ Len(loc[p].cleaned) >= 1
        /\ \A id \in Listed(loc[p].cleaned) : agents[id].kind = "none"
        /\ \E id \in AgentIDs :
               /\ agents[id].kind = "rec"
               /\ now - agents[id].last_heartbeat < StaleThreshold

\* process p enters or takes the step in which a registry call builds the
\* record it is going to save
BuildsRecord(p) ==
    /\ pc'[p] = "save_open"
    /\ \/ pc[p] \in {"hb_read", "ut_read", "ul_read"}
       \/ pc[p] \in {"idle", "done"} /\ call'[p].op = "Register"

(* C31 as stated: the last_heartbeat of every record in the registry is the
   time at which the record was last written, the modification time of its
   file; and an UpdateTask or UpdateLocks that finds no record fails and
   leaves the registry as it is. *)
C31_HeartbeatIsWriteTime ==
    /\ [](\A id \in AgentIDs :
            agents[id].kind = "rec"
               => agents[id].last_heartbeat = agents[id].mtime)
    /\ [][\A p \in Procs :
            (pc[p] \in {"ut_read", "ul_read"} /\ Moves(p)
               /\ agents[call[p].agentID].kind # "rec")
               => /\ pc'[p] = "done" /\ ret'[p].err # "ok"
                  /\ agents' = agents]_vars

(* C31 amended: Register, Heartbeat, UpdateTask and UpdateLocks put the
   clock reading of the moment they build the record in last_heartbeat and
   then write the record as built; the last_heartbeat of a record in the
   registry is therefore never later than the time of its last write, and
   may be earlier; an UpdateTask or UpdateLocks that finds no record fails
   and leaves the registry as it is. *)
C31_HeartbeatAtCall ==
    /\ [](\A id \in AgentIDs :
            agents[id].kind = "rec"
               => /\ agents[id].last_heartbeat <= agents[id].mtime
                  /\ agents[id].mtime <= now)
    /\ [][\A p \in Procs :
            LET id == call[p].agentID IN
            /\ BuildsRecord(p) => loc'[p].agent.last_heartbeat = now
            /\ (pc[p] = "save_write" /\ Moves(p) /\ agents' # agents)
                  => agents' = [agents EXCEPT
                                   ![id] = [loc[p].agent EXCEPT !.mtime = now]]
            /\ (pc[p] \in {"ut_read", "ul_read"} /\ Moves(p)
                  /\ agents[id].kind # "rec")
                  => /\ pc'[p] = "done" /\ ret'[p].err # "ok"
                     /\ agents' = agents]_vars

\* an UpdateTask has set the task; the clock moved before the file was written
C31_Witness ==
    \E p \in Procs :
        LET id == call[p].agentID IN
        /\ call[p].op = "UpdateTask" /\ pc[p] = "done" /\ ret[p].err = "ok"
        /\ agents[id].kind = "rec"
        /\ agents[id].current_task = call[p].task
        /\ agents[id].last_heartbeat < agents[id].mtime

(* C32: a lock record in the store is never rewritten: a step leaves it as
   it is or removes its file, so owner, acquired_at and ttl_seconds stay the
   same from creation to deletion; an Acquire by the owner of a lock that is
   not stale fails and leaves the store alone, and a CheckOrAcquire that
   finds the caller's own lock returns that record and leaves the store
   alone. *)
C32_RecordsImmutable ==
    [][/\ \A k \in Keys :
             locks[k].kind = "rec"
                => locks'[k] = locks[k] \/ locks'[k].kind = "none"
       /\ \A p \in Procs :
             /\ (/\ pc[p] = "acq_stale" /\ Moves(p)
                 /\ loc[p].existing.agent_id = call[p].agentID
                 /\ ~IsStale(loc[p].existing, now, agents))
                   => /\ locks' = locks
                      /\ pc'[p] = "done" /\ ret'[p].err = "conflict"
             /\ (/\ pc[p] = "coa_check" /\ pc'[p] = "done"
                 /\ ret'[p].lock.kind = "rec"
                 /\ ret'[p].lock.agent_id = call[p].agentID)
                   => /\ locks' = locks
                      /\ locks[lockPath(ret'[p].lock.resource)] = ret'[p].lock
      ]_vars

\* a CheckOrAcquire of the owner has come back, later, with the lock as it
\* was made
C32_Witness ==
    \E p \in Procs :
        /\ call[p].op = "CheckOrAcquire" /\ pc[p] = "done"
        /\ ret[p].err = "ok" /\ ret[p].lock.kind = "rec"
        /\ ret[p].lock.agent_id = call[p].agentID
        /\ ret[p].lock.acquired_at < now
        /\ locks[lockPath(ret[p].lock.resource)] = ret[p].lock

\* no pattern of the list matches the file
Unprotected(protected, filePath) ==
    \A i \in 1 .. Len(protected) : ~Match(protected[i], filePath).matched

(* C33: a file that the check command skips because of a cache entry matches
   no pattern of the configuration the invocation has loaded; a cache file
   whose hash is not the hash of that pattern list is used empty, under the
   new hash; after loading, the entries only grow, by the file for which
   Check or CheckOrAcquire has just reported that it is not protected; so
   the entries an invocation works with are all unprotected under its
   configuration. *)
C33_CacheNeverHides ==
    /\ [](\A p \in Procs :
            (call[p].op = "RunCheck" /\ pc[p] # "rc_load")
               => /\ IsValid(loc[p].checkCache, call[p].protected)
                  /\ \A f \in loc[p].checkCache.np :
                        Unprotected(call[p].protected, f))
    /\ [][\A p \in Procs :
            (call[p].op = "RunCheck" /\ pc[p] # "done" /\ Moves(p)) =>
               LET c == loc[p].checkCache
                   pl == call[p].protected IN
               /\ (pc[p] = "rc_file" /\ pc'[p] = "rc_file")
                     => /\ Head(loc[p].todo) \in c.np
                        /\ Unprotected(pl, Head(loc[p].todo))
               /\ (pc[p] = "rc_load" /\ ~IsValid(Load(cache), pl))
                     => loc'[p].checkCache = Reset(Load(cache), pl)
               /\ (pc[p] = "rc_load" /\ IsValid(Load(cache), pl))
                     => loc'[p].checkCache = Load(cache)
               /\ (pc[p] # "rc_load" /\ loc'[p].checkCache # c)
                     => /\ pc[p] = "rc_result"
                        /\ loc'[p].checkCache =
                              MarkNotProtected(c, call[p].file)
                        /\ loc[p].matched = <<>>
                        /\ ret[p].err = "ok" /\ ret[p].lock = NoFile
                        /\ Unprotected(pl, call[p].file)]_vars

\* after config.yaml was changed, a run has skipped every file it was given,
\* on entries that an earlier run has saved under the same pattern list
C33_Witness ==
    \E p \in Procs :
        /\ call[p].op = "RunCheck" /\ pc[p] = "done"
        /\ ~loc[p].cacheModified
        /\ \A i \in 1 .. Len(call[p].files) :
              call[p].files[i] \in loc[p].checkCache.np
        /\ cache.kind = "rec" /\ cache.np = loc[p].checkCache.np
        /\ config # call[p].protected

\* the lock file of p's resource holds the record of another resource
Collides(p) ==
    /\ locks[KeyOf(p)].kind = "rec"
    /\ locks[KeyOf(p)].resource # call[p].resource

(* C34: two distinct resources with the same file name share one lock: no
   step of an Acquire of the one changes the store while the record of the
   other is there and not stale, and the Acquire ends with the conflict
   error naming the owner of that record; a Release of the one by the owner
   of the record of the other goes on to remove, and removes, that record
   and returns success. *)
C34_CollisionSharesLock ==
    [][\A p \in Procs :
          LET k == KeyOf(p) IN
          /\ (/\ call[p].op = "Acquire" /\ pc[p] # "done" /\ Moves(p)
              /\ Collides(p) /\ ~IsStale(locks[k], now, agents))
                => /\ locks' = locks
                   /\ pc'[p] \in {"acq_read", "acq_stale", "done"}
                   /\ pc'[p] = "done" => ret'[p] = Conflict(locks[k].agent_id)
          /\ (/\ call[p].op = "Release" /\ pc[p] # "done" /\ Moves(p)
              /\ Collides(p) /\ locks[k].agent_id = call[p].agentID)
                => /\ pc[p] = "rel_read"
                         => pc'[p] = "rel_remove" /\ locks' = locks
                   /\ pc[p] = "rel_remove"
                         => /\ locks' = [locks EXCEPT ![k] = NoFile]
                            /\ pc'[p] = "done" /\ ret'[p].err = "ok"]_vars

\* B's Acquire of d-_ has failed on A's lock on d/*, or the other way round,
\* and A's Release of the resource it never locked has removed A's lock
C34_Witness ==
    \E p, q \in Procs :
        /\ call[q].op = "Acquire" /\ pc[q] = "done"
        /\ ret[q].err = "conflict" /\ ret[q].owner = p /\ p # q
        /\ loc[q].existing.resource # call[q].resource
        /\ call[p].op = "Release" /\ pc[p] = "done" /\ ret[p].err = "ok"
        /\ loc[p].existing.kind = "rec"
        /\ loc[p].existing.resource # call[p].resource
        /\ loc[p].existing.agent_id = p
        /\ locks[KeyOf(p)].kind = "none"

(* C35: an Acquire that returns the conflict error naming an owner has read
   a record of that owner and has judged it not stale; after judging the
   record stale it does not return that error. *)
C35_ConflictOnlyOnLive ==
    [][\A p \in Procs :
          (/\ call[p].op = "Acquire" /\ pc[p] # "done" /\ pc'[p] = "done"
           /\ ret'[p].err = "conflict")
             => /\ pc[p] = "acq_stale"
                /\ loc[p].existing.agent_id = ret'[p].owner
                /\ ~IsStale(loc[p].existing, now, agents)
                /\ ~loc'[p].stale]_vars

(* C36: a CheckOrAcquire that returns a lock and no error returns a lock of
   the caller, and that record is in the store at the moment of the return. *)
C36_ReturnsOwnLock ==
    [][\A p \in Procs :
          (/\ call[p].op = "CheckOrAcquire" /\ pc[p] # "done" /\ pc'[p] = "done"
           /\ ret'[p].err = "ok" /\ ret'[p].lock.kind = "rec")
             => /\ ret'[p].lock.agent_id = call[p].agentID
                /\ \E k \in Keys : locks'[k] = ret'[p].lock]_vars

\* process p takes the step by which CheckOrAcquire returns, to the command
\* line or into runCheck
CoaReturns(p) ==
    /\ \/ call[p].op = "CheckOrAcquire"
       \/ call[p].op = "RunCheck" /\ call[p].acquire
    /\ pc[p] \notin {"done", "rc_result"}
    /\ pc'[p] \in {"done", "rc_result"}
    /\ pc[p] # "rc_exit"

(* C37: whenever CheckOrAcquire returns an error it returns a lock with it,
   and the check command never reads the owner of a lock that is nil. *)
C37_ErrorNamesHolder ==
    /\ [][\A p \in Procs :
            (CoaReturns(p) /\ ret'[p].err # "ok")
               => ret'[p].lock.kind = "rec"]_vars
    /\ [](\A p \in Procs : pc[p] # "panic")

\* the locks within their TTL whose owner has a record in the registry
OwnedLive == {k \in Keys : /\ locks[k].kind = "rec"
                          /\ ~TTLElapsed(locks[k])
                          /\ agents[locks[k].agent_id].kind = "rec"}

(* C38 as stated: a lock within its TTL whose owner has a registry record is
   judged stale by IsStale exactly when IsAlive judges the owner not alive,
   whatever the age of the heartbeat. *)
C38_LivenessAgrees ==
    \A k \in OwnedLive :
        IsStale(locks[k], now, agents)
           <=> ~IsAlive(agents[locks[k].agent_id], now)

(* C38 amended: for such a lock, IsStale judges it stale only if IsAlive
   judges the owner not alive; the converse fails at the threshold: when
   the record's last_heartbeat is the time of its last write, the two
   judgements differ exactly when now - last_heartbeat = stale_threshold,
   where the agent is not alive and the lock is not stale. *)
C38_StaleOnlyIfDead ==
    \A k \in OwnedLive :
        LET a == agents[locks[k].agent_id]
            stale == IsStale(locks[k], now, agents) IN
        /\ stale => ~IsAlive(a, now)
        /\ a.last_heartbeat = a.mtime
              => /\ (stale <=> ~IsAlive(a, now))
                       <=> now - a.last_heartbeat # StaleThreshold
                 /\ now - a.last_heartbeat = StaleThreshold
                       => ~stale /\ ~IsAlive(a, now)

\* the lock sweep has kept the lock of an agent that the agent sweep, with
\* a heartbeat exactly stale_threshold old, is about to remove
C38_Witness ==
    \E p, q \in Procs :
        /\ call[q].op = "CleanStale" /\ pc[q] = "done"
        /\ loc[q].cleaned = <<>>
        /\ call[p].op = "AgentCleanStale" /\ pc[p] = "acs_remove"
        /\ LET a == Head(loc[p].todo) IN
           /\ agents[a.agent_id] = a
           /\ now - a.last_heartbeat = StaleThreshold
           /\ \E k \in OwnedLive :
                 /\ locks[k].agent_id = a.agent_id
                 /\ ~IsStale(locks[k], now, agents)

(* C39: when a Heartbeat starts to write, the record it writes carries the
   current_task and locks_held of the record that is in the registry at
   that moment, so it takes back nothing that a completed UpdateTask or
   UpdateLocks has written; and if the record has been deregistered
   meanwhile, what the Heartbeat writes is the new record of Register(id,
   ""), with nothing of the deregistered one. *)
C39_NoLostUpdate ==
    [][\A p \in Procs :
          LET id == call[p].agentID
              a == loc[p].agent IN
          (call[p].op = "Heartbeat" /\ pc[p] = "save_open" /\ Moves(p))
             => /\ agents[id].kind = "rec"
                      => /\ a.current_task = agents[id].current_task
                         /\ a.locks_held = agents[id].locks_held
                /\ agents[id].kind = "none"
                      => Identity(a) = <<id, "", a.last_heartbeat, "", <<>>>>
      ]_vars

\* the operations of the agent registry and those of the lock manager
RegistryOps == {"Register", "Heartbeat", "UpdateTask", "UpdateLocks",
                "Deregister", "AgentCleanStale"}
LockOps == {"Acquire", "Release", "ReleaseAll", "CleanStale", "Check",
            "CheckOrAcquire"}

(* C40: no step of a registry operation (Register, Heartbeat, UpdateTask,
   UpdateLocks, Deregister, the registry's CleanStale) changes the lock
   store, and no step of a lock manager operation (Acquire, Release,
   ReleaseAll, CleanStale, Check, CheckOrAcquire) changes the registry. *)
C40_FramedApart ==
    [][\A p \in Procs :
          Moves(p) =>
             /\ call'[p].op \in RegistryOps => locks' = locks
             /\ call'[p].op \in LockOps => agents' = agents
      ]_vars

\* Deregister has returned and a lock of the deregistered agent is still in
\* the store
C40_Witness ==
    \E p \in Procs :
        /\ pc[p] = "done" /\ call[p].op = "Deregister" /\ ret[p].err = "ok"
        /\ agents[call[p].agentID].kind = "none"
        /\ \E k \in Keys : /\ locks[k].kind = "rec"
                           /\ locks[k].agent_id = call[p].agentID

====
